---- MODULE Spec2Model ----
(***************************************************************************)
(* Task-normalization and registry-resolution pipeline of the Asana task   *)
(* agent: registry loading (lib/asana-registry.ts), the Asana client with  *)
(* rate-limit retry (lib/asana.ts) and the asanaCreateTask tool.           *)
(*                                                                         *)
(* Strings are sequences of one-character strings, so that toLowerCase,    *)
(* trim, split and includes are computed rather than assumed.              *)
(***************************************************************************)
EXTENDS Integers, Sequences, FiniteSets, TLC

(***************************************************************************)
(* Bounds of the model                                                     *)
(***************************************************************************)
MaxTasks == 3
MaxAttempts == 3
MaxRetryAfter == 2
MaxTime == 2
RefreshWindow == 1
MaxOffset == 1

(***************************************************************************)
(* String primitives (JavaScript String.prototype)                         *)
(***************************************************************************)
UpperChars == <<"A", "B", "C", "D", "E", "F", "G", "H", "I", "J", "K", "L", "M",
                "N", "O", "P", "Q", "R", "S", "T", "U", "V", "W", "X", "Y", "Z">>
LowerChars == <<"a", "b", "c", "d", "e", "f", "g", "h", "i", "j", "k", "l", "m",
                "n", "o", "p", "q", "r", "s", "t", "u", "v", "w", "x", "y", "z">>

LowerChar(c) ==
  IF \E k \in 1..Len(UpperChars) : UpperChars[k] = c
  THEN LowerChars[CHOOSE k \in 1..Len(UpperChars) : UpperChars[k] = c]
  ELSE c

toLowerCase(s) == [k \in 1..Len(s) |-> LowerChar(s[k])]

\* The white space trim removes: of it, texts here hold spaces and line
\* feeds.
WhiteSpace == {" ", "\n"}

RECURSIVE trimStart(_)
trimStart(s) ==
  IF s # <<>> /\ Head(s) \in WhiteSpace THEN trimStart(Tail(s)) ELSE s

RECURSIVE trimEnd(_)
trimEnd(s) ==
  IF s # <<>> /\ s[Len(s)] \in WhiteSpace
  THEN trimEnd(SubSeq(s, 1, Len(s) - 1))
  ELSE s

trim(s) == trimEnd(trimStart(s))

includes(s, sub) ==
  \E k \in 0..(Len(s) - Len(sub)) : SubSeq(s, k + 1, k + Len(sub)) = sub

\* s.split(' '): the pieces between single spaces, empty pieces included.
RECURSIVE splitSpace(_, _)
splitSpace(s, cur) ==
  IF s = <<>> THEN <<cur>>
  ELSE IF Head(s) = " " THEN <<cur>> \o splitSpace(Tail(s), <<>>)
  ELSE splitSpace(Tail(s), Append(cur, Head(s)))

\* Array.prototype.includes on an array of strings (strict equality).
arrayIncludes(arr, x) == \E k \in 1..Len(arr) : arr[k] = x

(***************************************************************************)
(* Registry documents (lib/asana-registry.ts)                              *)
(***************************************************************************)
\* registryCache's initial value, and the value JSON.parse gives for "null".
Null == [kind |-> "null"]

Al == [email |-> <<"a", "@", "x">>, name |-> <<"A", "l", " ", "B", "o">>,
       aliases |-> << <<"m", "e">> >>, active |-> TRUE]
Bo == [email |-> <<"b", "@", "x">>, name |-> <<"B", "o">>,
       aliases |-> << >>, active |-> TRUE]
Cy == [email |-> <<"c", "@", "x">>, name |-> <<"C", "y">>,
       aliases |-> << <<"c", "c">> >>, active |-> FALSE]

Ops == [id |-> <<"1">>, name |-> <<"O", "p", "s">>, aliases |-> << <<"r", "o">> >>,
        allowed_assignees |-> << <<"a", "@", "x">> >>,
        routing_keywords |-> << <<"o", "p">> >>, active |-> TRUE,
        defaults |-> [due_days_from_now |-> 2],
        notes_guidance |-> <<"G">>,
        context |-> [has_sla |-> TRUE, sla |-> [default_due_days_from_now |-> 1],
                     has_template |-> FALSE, notes_template |-> << >>,
                     title_rules |-> << <<"U", "s", "e", " ", "a", " ", "v", "e", "r", "b">> >>,
                     rules |-> << [when |-> [contains_any |-> << <<"c", "o", "m", "p", "l", "e", "t", "e">> >>],
                                   then |-> [append_note |-> <<"#", "c">>]] >>]]
Dev == [id |-> <<"2">>, name |-> <<"D", "e", "v">>,
        aliases |-> << <<"d">>, <<"d", "e", "v", "o", "p", "s">> >>,
        allowed_assignees |-> << <<"a", "@", "x">>, <<"b", "@", "x">> >>,
        routing_keywords |-> << >>, active |-> TRUE,
        defaults |-> [due_days_from_now |-> 2],
        notes_guidance |-> << >>,
        context |-> [has_sla |-> FALSE, sla |-> [default_due_days_from_now |-> 0],
                     has_template |-> FALSE, notes_template |-> << >>,
                     title_rules |-> << >>, rules |-> << >>]]
Old == [id |-> <<"3">>, name |-> <<"O", "l", "d">>, aliases |-> << <<"o", "d">> >>,
        allowed_assignees |-> << <<"a", "@", "x">> >>,
        routing_keywords |-> << >>, active |-> FALSE,
        defaults |-> [due_days_from_now |-> 0],
        notes_guidance |-> << >>,
        context |-> [has_sla |-> FALSE, sla |-> [default_due_days_from_now |-> 0],
                     has_template |-> FALSE, notes_template |-> << >>,
                     title_rules |-> << >>, rules |-> << >>]]
Lab == [id |-> <<"4">>, name |-> <<"L", "a", "b">>, aliases |-> << >>,
        allowed_assignees |-> << <<"b", "@", "x">> >>,
        routing_keywords |-> << >>, active |-> TRUE,
        defaults |-> [due_days_from_now |-> 0],
        notes_guidance |-> << >>,
        context |-> [has_sla |-> FALSE, sla |-> [default_due_days_from_now |-> 0],
                     has_template |-> FALSE, notes_template |-> << >>,
                     title_rules |-> << >>, rules |-> << >>]]

\* A registry document as JSON.parse returns it.  has_x is FALSE when the
\* section x is absent (undefined) in the document; context.sla is
\* meaningful only when context.has_sla, context.notes_template only when
\* context.has_template; context.title_rules and context.rules are empty
\* when task_guidance.title_rules or rules is absent (the code treats an
\* absent and an empty list alike).
RegistryA ==
  [kind |-> "doc", has_version |-> TRUE, has_meta |-> TRUE,
   has_people |-> TRUE, has_projects |-> TRUE,
   policy |-> [on_unknown_project |-> "ask", on_unknown_person |-> "reject"],
   defaults |-> [default_due_days_from_now |-> 4],
   people |-> <<Al, Bo, Cy>>, projects |-> <<Ops, Dev, Old, Lab>>]

RegistryB ==
  [kind |-> "doc", has_version |-> TRUE, has_meta |-> TRUE,
   has_people |-> TRUE, has_projects |-> TRUE,
   policy |-> [on_unknown_project |-> "reject", on_unknown_person |-> "ask"],
   defaults |-> [default_due_days_from_now |-> 0],
   people |-> <<Bo>>, projects |-> <<Dev>>]

NoVersion == [RegistryA EXCEPT !.has_version = FALSE]
NoMeta == [RegistryA EXCEPT !.has_meta = FALSE]
NoPeople == [RegistryA EXCEPT !.has_people = FALSE, !.people = << >>]
NoProjects == [RegistryA EXCEPT !.has_projects = FALSE, !.projects = << >>]

ValidDocs == {RegistryA, RegistryB}
InvalidDocs == {NoVersion, NoMeta, NoPeople, NoProjects}

\* What config/opus-registry.json can be: absent, not JSON, or JSON text
\* for some value.
Sources ==
  {[kind |-> "missing"], [kind |-> "malformed"]}
    \cup {[kind |-> "json", value |-> v] : v \in ValidDocs \cup InvalidDocs \cup {Null}}

\* Mutation: the fallback asks instead of rejecting.
SafeDefault_ask ==
  [kind |-> "doc", has_version |-> TRUE, has_meta |-> TRUE,
   has_people |-> TRUE, has_projects |-> TRUE,
   policy |-> [on_unknown_project |-> "ask", on_unknown_person |-> "ask"],
   defaults |-> [default_due_days_from_now |-> 3],
   people |-> << >>, projects |-> << >>]

\* The fallback literal returned by loadRegistry's catch block.
SafeDefault ==
  [kind |-> "doc", has_version |-> TRUE, has_meta |-> TRUE,
   has_people |-> TRUE, has_projects |-> TRUE,
   policy |-> [on_unknown_project |-> "reject", on_unknown_person |-> "reject"],
   defaults |-> [default_due_days_from_now |-> 3],
   people |-> << >>, projects |-> << >>]

\* JavaScript truthiness of registryCache.
Truthy(c) == c # Null

\* Mutation: the cache is bypassed and the file is read on every call.
loadRegistry_alwaysRead(cache, src) ==
  IF src.kind # "json"
  THEN [ret |-> SafeDefault, cache |-> cache, read |-> TRUE, assigned |-> FALSE]
  ELSE IF src.value = Null
       THEN [ret |-> SafeDefault, cache |-> Null, read |-> TRUE, assigned |-> TRUE]
       ELSE IF ~src.value.has_version \/ ~src.value.has_meta
                 \/ ~src.value.has_people \/ ~src.value.has_projects
            THEN [ret |-> SafeDefault, cache |-> src.value, read |-> TRUE,
                  assigned |-> TRUE]
            ELSE [ret |-> src.value, cache |-> src.value, read |-> TRUE,
                  assigned |-> TRUE]

\* Mutation: the fallback is cached when the file cannot be read or parsed.
loadRegistry_cacheFallback(cache, src) ==
  IF Truthy(cache)
  THEN [ret |-> cache, cache |-> cache, read |-> FALSE, assigned |-> FALSE]
  ELSE IF src.kind # "json"
       THEN [ret |-> SafeDefault, cache |-> SafeDefault, read |-> TRUE,
             assigned |-> TRUE]
       ELSE IF src.value = Null
            THEN [ret |-> SafeDefault, cache |-> Null, read |-> TRUE, assigned |-> TRUE]
            ELSE IF ~src.value.has_version \/ ~src.value.has_meta
                      \/ ~src.value.has_people \/ ~src.value.has_projects
                 THEN [ret |-> SafeDefault, cache |-> src.value, read |-> TRUE,
                       assigned |-> TRUE]
                 ELSE [ret |-> src.value, cache |-> src.value, read |-> TRUE,
                       assigned |-> TRUE]

\* One call of loadRegistry(): ret is the value returned, cache the value of
\* registryCache afterwards, read whether the file was read.
loadRegistry(cache, src) ==
  IF Truthy(cache)
  THEN [ret |-> cache, cache |-> cache, read |-> FALSE, assigned |-> FALSE]
  ELSE IF src.kind # "json"
       THEN \* readFileSync or JSON.parse throws before the assignment
            [ret |-> SafeDefault, cache |-> cache, read |-> TRUE, assigned |-> FALSE]
       ELSE IF src.value = Null
            THEN \* registryCache = null; reading .version throws TypeError
                 [ret |-> SafeDefault, cache |-> Null, read |-> TRUE, assigned |-> TRUE]
            ELSE IF ~src.value.has_version \/ ~src.value.has_meta
                      \/ ~src.value.has_people \/ ~src.value.has_projects
                 THEN \* validation throws after registryCache was assigned
                      [ret |-> SafeDefault, cache |-> src.value, read |-> TRUE,
                       assigned |-> TRUE]
                 ELSE [ret |-> src.value, cache |-> src.value, read |-> TRUE,
                       assigned |-> TRUE]

(***************************************************************************)
(* Alias resolution                                                        *)
(***************************************************************************)
NotFound == [kind |-> "none"]
Thrown == [kind |-> "throw"]

\* Mutation: the name-part comparison is left out.
personMatches_exactOnly(person, normalizedInput) ==
  \/ toLowerCase(person.email) = normalizedInput
  \/ \E k \in 1..Len(person.aliases) : toLowerCase(person.aliases[k]) = normalizedInput
  \/ toLowerCase(person.name) = normalizedInput

personMatches(person, normalizedInput) ==
  \/ toLowerCase(person.email) = normalizedInput
  \/ \E k \in 1..Len(person.aliases) : toLowerCase(person.aliases[k]) = normalizedInput
  \/ toLowerCase(person.name) = normalizedInput
  \/ LET nameParts == splitSpace(toLowerCase(person.name), << >>)
     IN \E k \in 1..Len(nameParts) : nameParts[k] = normalizedInput

\* resolvePersonByAlias against the registry its loadRegistry() call returned.
resolvePersonByAlias(registry, input) ==
  LET normalizedInput == trim(toLowerCase(input))
      hits == {k \in 1..Len(registry.people) :
                 registry.people[k].active
                   /\ personMatches(registry.people[k], normalizedInput)}
  IN IF ~registry.has_people THEN Thrown
     ELSE IF hits = {} THEN NotFound
     ELSE [kind |-> "found",
           entry |-> registry.people[CHOOSE k \in hits : \A j \in hits : k <= j]]

projectMatches(project, normalizedInput) ==
  \/ toLowerCase(project.name) = normalizedInput
  \/ \E k \in 1..Len(project.aliases) : toLowerCase(project.aliases[k]) = normalizedInput
  \/ \E k \in 1..Len(project.routing_keywords) :
       includes(normalizedInput, toLowerCase(project.routing_keywords[k]))

\* Mutation: inactive projects are not skipped.
resolveProjectByAlias_inactiveToo(registry, input) ==
  LET normalizedInput == trim(toLowerCase(input))
      hits == {k \in 1..Len(registry.projects) :
                 projectMatches(registry.projects[k], normalizedInput)}
  IN IF ~registry.has_projects THEN Thrown
     ELSE IF hits = {} THEN NotFound
     ELSE [kind |-> "found",
           entry |-> registry.projects[CHOOSE k \in hits : \A j \in hits : k <= j]]

resolveProjectByAlias(registry, input) ==
  LET normalizedInput == trim(toLowerCase(input))
      hits == {k \in 1..Len(registry.projects) :
                 registry.projects[k].active
                   /\ projectMatches(registry.projects[k], normalizedInput)}
  IN IF ~registry.has_projects THEN Thrown
     ELSE IF hits = {} THEN NotFound
     ELSE [kind |-> "found",
           entry |-> registry.projects[CHOOSE k \in hits : \A j \in hits : k <= j]]

\* Mutation: the permission test is skipped.
isAssigneeAllowed_anyone(personEmail, project) == TRUE

isAssigneeAllowedForProject(personEmail, project) ==
  arrayIncludes(project.allowed_assignees, personEmail)

getAllowedAssigneesForProject(project) == project.allowed_assignees

\* Array.prototype.filter(p => p.active)
activeOnly(entries) == SelectSeq(entries, LAMBDA p : p.active)

\* The template literal `${name} (${shown})`.
withParens(name, shown) == name \o <<" ", "(">> \o shown \o <<")">>

NoAlias == <<"n", "o", " ", "a", "l", "i", "a", "s">>

\* a[0] || fallback: a missing first element and the empty string are falsy.
firstOr(a, fallback) == IF Len(a) > 0 /\ a[1] # << >> THEN a[1] ELSE fallback

\* Mutation: the listing does not filter on the active flag.
getAvailableProjects_all(registry) ==
  [k \in 1..Len(registry.projects) |->
     withParens(registry.projects[k].name,
                firstOr(registry.projects[k].aliases, NoAlias))]

getAvailableProjects(registry) ==
  LET shown == activeOnly(registry.projects)
  IN [k \in 1..Len(shown) |->
        withParens(shown[k].name, firstOr(shown[k].aliases, NoAlias))]

getAvailablePeople(registry) ==
  LET shown == activeOnly(registry.people)
  IN [k \in 1..Len(shown) |->
        withParens(shown[k].name, firstOr(shown[k].aliases, shown[k].email))]

(***************************************************************************)
(* JavaScript number | undefined values carried by AsanaAPIError           *)
(***************************************************************************)
Undef == [t |-> "undef"]
NaNValue == [t |-> "nan"]
Num(n) == [t |-> "num", n |-> n]

\* x || 1 for x a number or undefined: undefined, NaN and 0 are falsy.
OrOne(x) == IF x.t = "num" /\ x.n # 0 THEN x.n ELSE 1

\* new AsanaAPIError(message, status, retryAfter); msg names the message
\* and text is the response text interpolated into it (empty when the
\* message has none).
AsanaAPIError(msg, status, retryAfter) ==
  [msg |-> msg, status |-> status, retryAfter |-> retryAfter, text |-> << >>]

NoError == [msg |-> "none"]

(***************************************************************************)
(* The external service's answers                                          *)
(***************************************************************************)
ErrorStatuses == {400, 401, 403, 404, 500}

\* response.text() of a non-2xx answer: empty, or, with the statuses the
\* service gives for a bad or unknown object, a text naming it by its gid.
ErrorBodies(st) ==
  IF st \in {400, 404}
  THEN {<< >>, <<"g", "i", "d", " ", "1", "4", "0", "1">>}
  ELSE {<< >>}

\* The Retry-After header of a 429 answer: absent, not a number, or seconds.
RetryAfterHeaders ==
  {[present |-> FALSE], [present |-> TRUE, numeric |-> FALSE]}
    \cup {[present |-> TRUE, numeric |-> TRUE, seconds |-> r] : r \in 0..MaxRetryAfter}

\* Number(response.headers.get('Retry-After') ?? '1')
retryAfterOf(header) ==
  IF ~header.present THEN Num(1)
  ELSE IF ~header.numeric THEN NaNValue
  ELSE Num(header.seconds)

\* Answers to POST /tasks.  A 2xx answer means the service stored the task;
\* its body may still lack data.gid.
CreateResponses ==
  {[kind |-> "ok", gid |-> g] : g \in BOOLEAN}
    \cup {[kind |-> "429", header |-> h] : h \in RetryAfterHeaders}
    \cup UNION {{[kind |-> "error", status |-> st, body |-> b] :
                    b \in ErrorBodies(st)} : st \in ErrorStatuses}

\* Answers to GET /tasks/{gid}: 2xx with or without permalink_url, or a
\* non-2xx status (429 included: getTaskPermalink has no 429 branch).
PermalinkResponses ==
  {[kind |-> "ok", link |-> l] : l \in BOOLEAN}
    \cup UNION {{[kind |-> "error", status |-> st, body |-> b] :
                    b \in ErrorBodies(st)} : st \in ErrorStatuses \cup {429}}

(***************************************************************************)
(* Calendar and the JavaScript Date operations formatDueDate uses.  A Date *)
(* is its time value, counted here in whole hours since 00:00 UTC on       *)
(* 1 January of EpochYear; tz is the host's zone, in hours east of UTC     *)
(* (daylight-saving changes are not modelled).                             *)
(***************************************************************************)
EpochYear == 2023
LastYear == 2030
HoursPerDay == 24

IsLeap(y) == (y % 4 = 0 /\ y % 100 # 0) \/ y % 400 = 0
DaysInYear(y) == IF IsLeap(y) THEN 366 ELSE 365
DaysInMonth(y, m) ==
  IF m = 2 THEN (IF IsLeap(y) THEN 29 ELSE 28)
  ELSE IF m \in {4, 6, 9, 11} THEN 30 ELSE 31

RECURSIVE DaysBeforeYear(_)
DaysBeforeYear(y) ==
  IF y <= EpochYear THEN 0 ELSE DaysBeforeYear(y - 1) + DaysInYear(y - 1)

RECURSIVE DaysBeforeMonth(_, _)
DaysBeforeMonth(y, m) ==
  IF m <= 1 THEN 0 ELSE DaysBeforeMonth(y, m - 1) + DaysInMonth(y, m - 1)

\* MakeDay of ECMAScript: the day number of year y, month m, day d; a d past
\* the end of the month runs on into the following month.
MakeDay(y, m, d) == DaysBeforeYear(y) + DaysBeforeMonth(y, m) + d - 1

YearOfDay(n) ==
  CHOOSE y \in EpochYear..LastYear :
    DaysBeforeYear(y) <= n /\ n < DaysBeforeYear(y + 1)

DateOfDay(n) ==
  LET y == YearOfDay(n)
      rest == n - DaysBeforeYear(y)
      m == CHOOSE k \in 1..12 :
             DaysBeforeMonth(y, k) <= rest
               /\ rest < DaysBeforeMonth(y, k) + DaysInMonth(y, k)
  IN [year |-> y, month |-> m, date |-> rest - DaysBeforeMonth(y, m) + 1]

\* Day of the week as getDay numbers it: 0 is Sunday (1 January 2023 was one).
WeekDay(n) == n % 7

\* The time value of hour h of the UTC day year-month-date.
Instant(year, month, date, h) == MakeDay(year, month, date) * HoursPerDay + h

\* Date.prototype.getDay, getFullYear: fields of the host's local time.
getDay(t, tz) == WeekDay((t + tz) \div HoursPerDay)
getFullYear(t, tz) == YearOfDay((t + tz) \div HoursPerDay)

\* d.setDate(d.getDate() + n): n local days later, same local time of day.
addDays(t, n) == t + n * HoursPerDay

\* d.setFullYear(y): the local month, day and time of day kept, the local
\* year replaced (29 February runs on into 1 March when y is not a leap year).
setFullYear(t, tz, y) ==
  LET lt == t + tz
      d == DateOfDay(lt \div HoursPerDay)
  IN MakeDay(y, d.month, d.date) * HoursPerDay + (lt % HoursPerDay) - tz

Digits == <<"0", "1", "2", "3", "4", "5", "6", "7", "8", "9">>
isDigit(c) == \E k \in 1..Len(Digits) : Digits[k] = c
digitValue(c) == (CHOOSE k \in 1..Len(Digits) : Digits[k] = c) - 1

\* n in decimal, padded with zeros on the left to width characters.
RECURSIVE padStart(_, _)
padStart(n, width) ==
  IF width = 0 THEN << >>
  ELSE Append(padStart(n \div 10, width - 1), Digits[(n % 10) + 1])

\* d.toISOString().split('T')[0]: the UTC calendar date as YYYY-MM-DD.
toISODate(t) ==
  LET d == DateOfDay(t \div HoursPerDay)
  IN padStart(d.year, 4) \o <<"-">> \o padStart(d.month, 2) \o <<"-">>
       \o padStart(d.date, 2)

\* parseInt(s, 10) of a string of decimal digits.
RECURSIVE parseInt(_)
parseInt(s) ==
  IF s = << >> THEN 0
  ELSE parseInt(SubSeq(s, 1, Len(s) - 1)) * 10 + digitValue(s[Len(s)])

allDigits(s) == \A k \in 1..Len(s) : isDigit(s[k])

(***************************************************************************)
(* Due dates (formatDueDate, getDefaultDueDate of the tool)                *)
(***************************************************************************)
\* An optional string argument, and formatDueDate's string | undefined.
NoDue == [present |-> FALSE]
Due(text) == [present |-> TRUE, text |-> text]
NoDate == [defined |-> FALSE]
DateString(s) == [defined |-> TRUE, value |-> s]

InvalidDate == [valid |-> FALSE]

\* new Date(text) for the date-only form YYYY-MM-DD, which ECMAScript reads
\* as 00:00 UTC of that day; any other text used here (none is a date in
\* another notation) gives Invalid Date.
newDate(text) ==
  IF /\ Len(text) = 10
     /\ text[5] = "-" /\ text[8] = "-"
     /\ allDigits(SubSeq(text, 1, 4))
     /\ allDigits(SubSeq(text, 6, 7))
     /\ allDigits(SubSeq(text, 9, 10))
  THEN LET y == parseInt(SubSeq(text, 1, 4))
           m == parseInt(SubSeq(text, 6, 7))
           d == parseInt(SubSeq(text, 9, 10))
       IN IF y \in EpochYear..LastYear /\ m \in 1..12 /\ d \in 1..DaysInMonth(y, m)
          THEN [valid |-> TRUE, t |-> Instant(y, m, d, 0)]
          ELSE InvalidDate
  ELSE InvalidDate

NoMatch == [matched |-> FALSE]

\* s.match(/in (\d+) days?/): the digits captured by the leftmost match.
inDaysMatch(s) ==
  LET starts ==
        {p \in 1..(Len(s) - 2) :
           /\ SubSeq(s, p, p + 2) = <<"i", "n", " ">>
           /\ \E q \in (p + 3)..(Len(s) - 4) :
                /\ allDigits(SubSeq(s, p + 3, q))
                /\ SubSeq(s, q + 1, q + 4) = <<" ", "d", "a", "y">>}
  IN IF starts = {} THEN NoMatch
     ELSE LET p == CHOOSE a \in starts : \A b \in starts : a <= b
              q == CHOOSE e \in (p + 3)..(Len(s) - 4) :
                     /\ allDigits(SubSeq(s, p + 3, e))
                     /\ SubSeq(s, e + 1, e + 4) = <<" ", "d", "a", "y">>
          IN [matched |-> TRUE, digits |-> SubSeq(s, p + 3, q)]

\* (target - today.getDay() + 7) % 7 || 7
daysUntil(target, today, tz) ==
  LET n == (target - getDay(today, tz) + 7) % 7
  IN IF n # 0 THEN n ELSE 7

\* Mutation: a past date is returned as parsed.
rollForward_keep(parsedDate, today, tz) == parsedDate

\* Mutation: a past date is moved forward by one year, once.
rollForward_oneYear(parsedDate, today, tz) ==
  IF parsedDate < today
  THEN setFullYear(parsedDate, tz, getFullYear(parsedDate, tz) + 1)
  ELSE parsedDate

\* "Ensure the date is not in the past": the two setFullYear calls.
rollForward(parsedDate, today, tz) ==
  IF parsedDate < today
  THEN LET thisYear == setFullYear(parsedDate, tz, getFullYear(today, tz))
       IN IF thisYear < today
          THEN setFullYear(thisYear, tz, getFullYear(today, tz) + 1)
          ELSE thisYear
  ELSE parsedDate

\* formatDueDate(dueInput) called at time today on a host in zone tz.
formatDueDate(dueInput, today, tz) ==
  IF ~dueInput.present \/ dueInput.text = << >> THEN NoDate
  ELSE
    LET normalizedInput == trim(toLowerCase(dueInput.text))
        inDays == inDaysMatch(normalizedInput)
        parsedDate == newDate(dueInput.text)
    IN IF includes(normalizedInput, <<"t", "o", "d", "a", "y">>)
       THEN DateString(toISODate(today))
       ELSE IF includes(normalizedInput, <<"t", "o", "m", "o", "r", "r", "o", "w">>)
       THEN DateString(toISODate(addDays(today, 1)))
       ELSE IF \/ includes(normalizedInput, <<"n", "e", "x", "t", " ", "w", "e", "e", "k">>)
               \/ includes(normalizedInput,
                           <<"n", "e", "x", "t", " ", "m", "o", "n", "d", "a", "y">>)
       THEN DateString(toISODate(addDays(today, daysUntil(1, today, tz))))
       ELSE IF includes(normalizedInput,
                        <<"n", "e", "x", "t", " ", "f", "r", "i", "d", "a", "y">>)
       THEN DateString(toISODate(addDays(today, daysUntil(5, today, tz))))
       ELSE IF inDays.matched
       THEN DateString(toISODate(addDays(today, parseInt(inDays.digits))))
       ELSE IF parsedDate.valid
       THEN DateString(toISODate(rollForward(parsedDate.t, today, tz)))
       ELSE NoDate

FallbackDueDays == 3

\* a || b for a number-or-undefined a: undefined, NaN and 0 are falsy.
orNumber(a, b) == IF a.t = "num" /\ a.n # 0 THEN a.n ELSE b

\* project.context.sla?.default_due_days_from_now
slaDueDays(project) ==
  IF ~project.context.has_sla THEN Undef
  ELSE Num(project.context.sla.default_due_days_from_now)

\* getDefaultDueDate(project); registry is what its loadRegistry() returns.
getDefaultDueDate(project, registry, today) ==
  LET daysToAdd ==
        orNumber(slaDueDays(project),
          orNumber(Num(project.defaults.due_days_from_now),
            orNumber(Num(registry.defaults.default_due_days_from_now),
                     FallbackDueDays)))
  IN toISODate(addDays(today, daysToAdd))

\* formatDueDate(due_on) || getDefaultDueDate(resolvedProject)
formattedDueDate(due_on, project, registry, today, tz) ==
  LET formatted == formatDueDate(due_on, today, tz)
  IN IF formatted.defined THEN formatted.value
     ELSE getDefaultDueDate(project, registry, today)

(***************************************************************************)
(* Titles and notes (refineTitle, synthesizeNotes of the tool)             *)
(***************************************************************************)
\* An optional notes argument.
NoNotes == [present |-> FALSE]
Notes(text) == [present |-> TRUE, text |-> text]

\* a || b for an optional string a: undefined and '' are falsy.
orText(a, b) == IF a.present /\ a.text # << >> THEN a.text ELSE b

actionVerbs ==
  << <<"c", "r", "e", "a", "t", "e">>, <<"s", "e", "n", "d">>, <<"e", "m", "a", "i", "l">>, <<"c", "o", "n", "f", "i", "r", "m">>, <<"s", "c", "h", "e", "d", "u", "l", "e">>, <<"d", "e", "l", "i", "v", "e", "r">>,
     <<"c", "o", "m", "p", "l", "e", "t", "e">>, <<"r", "e", "v", "i", "e", "w">>, <<"u", "p", "d", "a", "t", "e">>, <<"f", "i", "x">>, <<"i", "m", "p", "l", "e", "m", "e", "n", "t">>, <<"a", "n", "a", "l", "y", "z", "e">>,
     <<"p", "r", "e", "p", "a", "r", "e">>, <<"d", "r", "a", "f", "t">>, <<"f", "i", "n", "a", "l", "i", "z", "e">>, <<"s", "u", "b", "m", "i", "t">>, <<"a", "p", "p", "r", "o", "v", "e">>, <<"c", "o", "o", "r", "d", "i", "n", "a", "t", "e">> >>

\* "Infer an appropriate verb based on content": the title with the verb
\* in front.
withVerb(title) ==
  LET lower == toLowerCase(title)
  IN IF includes(lower, <<"e", "m", "a", "i", "l">>) \/ includes(lower, <<"s", "e", "n", "d">>)
     THEN <<"S", "e", "n", "d", " ">> \o title
     ELSE IF includes(lower, <<"m", "e", "e", "t", "i", "n", "g">>) \/ includes(lower, <<"c", "a", "l", "l">>)
     THEN <<"S", "c", "h", "e", "d", "u", "l", "e", " ">> \o title
     ELSE IF includes(lower, <<"d", "o", "c", "u", "m", "e", "n", "t">>) \/ includes(lower, <<"r", "e", "p", "o", "r", "t">>)
     THEN <<"P", "r", "e", "p", "a", "r", "e", " ">> \o title
     ELSE <<"C", "o", "m", "p", "l", "e", "t", "e", " ">> \o title

\* Mutation: the loop goes on after a verb was added.
RECURSIVE titleRulesLoop_noBreak(_, _, _, _)
titleRulesLoop_noBreak(titleRules, k, startsWithVerb, title) ==
  IF k > Len(titleRules) THEN title
  ELSE IF includes(toLowerCase(titleRules[k]), <<"v", "e", "r", "b">>) /\ ~startsWithVerb
  THEN titleRulesLoop_noBreak(titleRules, k + 1, startsWithVerb, withVerb(title))
  ELSE titleRulesLoop_noBreak(titleRules, k + 1, startsWithVerb, title)

\* for (const rule of titleRules), from rule k on: the first rule that
\* mentions a verb adds one and ends the loop ("Only add verb once"); the
\* deliverable and customer-name rules leave the title as it is.
RECURSIVE titleRulesLoop(_, _, _, _)
titleRulesLoop(titleRules, k, startsWithVerb, title) ==
  IF k > Len(titleRules) THEN title
  ELSE IF includes(toLowerCase(titleRules[k]), <<"v", "e", "r", "b">>) /\ ~startsWithVerb
  THEN withVerb(title)
  ELSE titleRulesLoop(titleRules, k + 1, startsWithVerb, title)

refineTitle(project, originalTitle) ==
  LET title == trim(originalTitle)
      titleRules == project.context.title_rules
      firstWord == toLowerCase(splitSpace(title, << >>)[1])
      startsWithVerb == arrayIncludes(actionVerbs, firstWord)
  IN IF Len(titleRules) > 0
     THEN titleRulesLoop(titleRules, 1, startsWithVerb, title)
     ELSE title

\* s.replace(new RegExp(key, 'g'), value) for a key that matches only
\* itself and a value without replacement patterns: every occurrence of
\* key, left to right, is replaced.
RECURSIVE replaceAll(_, _, _)
replaceAll(s, key, value) ==
  IF Len(s) < Len(key) \/ key = << >> THEN s
  ELSE IF SubSeq(s, 1, Len(key)) = key
  THEN value \o replaceAll(SubSeq(s, Len(key) + 1, Len(s)), key, value)
  ELSE <<Head(s)>> \o replaceAll(Tail(s), key, value)

\* The template variables, in the order of the object literal.
templateVars(originalNotes, title) ==
  << <<<<"{", "g", "o", "a", "l", "}">>, orText(originalNotes, <<"A", "s", " ", "s", "p", "e", "c", "i", "f", "i", "e", "d", " ", "i", "n", " ", "t", "i", "t", "l", "e">>)>>,
     <<<<"{", "d", "e", "t", "a", "i", "l", "s", "}">>, orText(originalNotes, <<"S", "e", "e", " ", "t", "a", "s", "k", " ", "t", "i", "t", "l", "e", " ", "f", "o", "r", " ", "d", "e", "t", "a", "i", "l", "s">>)>>,
     <<<<"{", "a", "c", "c", "e", "p", "t", "a", "n", "c", "e", "_", "c", "r", "i", "t", "e", "r", "i", "a", "}">>, <<"T", "a", "s", "k", " ", "c", "o", "m", "p", "l", "e", "t", "e", "d", " ", "a", "s", " ", "s", "p", "e", "c", "i", "f", "i", "e", "d">>>>,
     <<<<"{", "a", "c", "c", "e", "p", "t", "a", "n", "c", "e", "}">>, <<"T", "a", "s", "k", " ", "c", "o", "m", "p", "l", "e", "t", "e", "d", " ", "s", "u", "c", "c", "e", "s", "s", "f", "u", "l", "l", "y">>>>,
     <<<<"{", "c", "u", "s", "t", "o", "m", "e", "r", "}">>, <<"T", "B", "D">>>>,
     <<<<"{", "o", "b", "j", "e", "c", "t", "i", "v", "e", "}">>, title>>,
     <<<<"{", "d", "e", "p", "e", "n", "d", "e", "n", "c", "i", "e", "s", "}">>, <<"N", "o", "n", "e", " ", "i", "d", "e", "n", "t", "i", "f", "i", "e", "d">>>>,
     <<<<"{", "f", "o", "c", "u", "s", "}">>, orText(originalNotes, title)>>,
     <<<<"{", "d", "a", "t", "e", "s", "}">>, <<"T", "B", "D">>>>,
     <<<<"{", "i", "s", "s", "u", "e", "}">>, orText(originalNotes, <<"A", "s", " ", "d", "e", "s", "c", "r", "i", "b", "e", "d">>)>>,
     <<<<"{", "i", "m", "p", "a", "c", "t", "}">>, <<"T", "B", "D">>>>,
     <<<<"{", "s", "t", "e", "p", "s", "}">>, <<"T", "B", "D">>>>,
     <<<<"{", "o", "w", "n", "e", "r", "}">>, <<"A", "s", "s", "i", "g", "n", "e", "d", " ", "p", "e", "r", "s", "o", "n">>>>,
     <<<<"{", "c", "o", "m", "p", "a", "n", "y", "}">>, <<"T", "B", "D">>>>,
     <<<<"{", "s", "t", "a", "c", "k", "}">>, <<"T", "B", "D">>>>,
     <<<<"{", "p", "a", "i", "n", "s", "}">>, <<"T", "B", "D">>>>,
     <<<<"{", "t", "i", "m", "e", "l", "i", "n", "e", "}">>, <<"T", "B", "D">>>>,
     <<<<"{", "b", "u", "d", "g", "e", "t", "}">>, <<"T", "B", "D">>>> >>

\* "Replace all template variables": entries k.. of vars applied to notes.
RECURSIVE substitute(_, _, _)
substitute(notes, vars, k) ==
  IF k > Len(vars) THEN notes
  ELSE substitute(replaceAll(notes, vars[k][1], vars[k][2]), vars, k + 1)

\* rule.when.contains_any.some(keyword =>
\*   combinedText.includes(keyword.toLowerCase()))
matchesCondition(rule, combinedText) ==
  \E k \in 1..Len(rule.when.contains_any) :
    includes(combinedText, toLowerCase(rule.when.contains_any[k]))

\* The body of the rules loop for one matching rule: notes trimmed, a blank
\* line if anything is there, then the rule's text.
appendNote(notes, text) ==
  LET trimmed == trim(notes)
  IN (IF trimmed # << >> THEN trimmed \o <<"\n", "\n">> ELSE trimmed) \o text

\* Mutation: only the first matching rule appends its note.
RECURSIVE rulesLoop_firstOnly(_, _, _, _)
rulesLoop_firstOnly(rules, k, combinedText, notes) ==
  IF k > Len(rules) THEN notes
  ELSE IF matchesCondition(rules[k], combinedText)
            /\ rules[k].then.append_note # << >>
  THEN appendNote(notes, rules[k].then.append_note)
  ELSE rulesLoop_firstOnly(rules, k + 1, combinedText, notes)

\* for (const rule of context.rules), from rule k on.
RECURSIVE rulesLoop(_, _, _, _)
rulesLoop(rules, k, combinedText, notes) ==
  IF k > Len(rules) THEN notes
  ELSE IF matchesCondition(rules[k], combinedText)
            /\ rules[k].then.append_note # << >>
  THEN rulesLoop(rules, k + 1, combinedText,
                 appendNote(notes, rules[k].then.append_note))
  ELSE rulesLoop(rules, k + 1, combinedText, notes)

synthesizeNotes(project, originalNotes, title) ==
  LET context == project.context
      templated ==
        IF context.has_template /\ context.notes_template # << >>
        THEN substitute(context.notes_template,
                        templateVars(originalNotes, title), 1)
        ELSE orText(originalNotes, << >>)
      combinedText ==
        toLowerCase(title \o <<" ">> \o orText(originalNotes, << >>))
      ruled == rulesLoop(context.rules, 1, combinedText, templated)
      guidance == project.notes_guidance
      guided ==
        IF guidance # << >> /\ ~includes(ruled, guidance)
        THEN (IF trim(ruled) # << >>
              THEN guidance \o <<"\n", "\n">> \o trim(ruled)
              ELSE guidance)
        ELSE ruled
  IN IF trim(guided) # << >> THEN trim(guided) ELSE <<"N", "o", " ", "a", "d", "d", "i", "t", "i", "o", "n", "a", "l", " ", "n", "o", "t", "e", "s", ".">>

\* Mutation: the notes are synthesized from the title as the user gave it.
applyProjectContext_rawTitle(project, title, notes) ==
  [name |-> refineTitle(project, title),
   notes |-> synthesizeNotes(project, notes, title)]

\* "Apply project context to refine title and notes": the title is refined
\* first and the notes are synthesized from the refined title.
applyProjectContext(project, title, notes) ==
  LET refinedTitle == refineTitle(project, title)
  IN [name |-> refinedTitle,
      notes |-> synthesizeNotes(project, notes, refinedTitle)]

(***************************************************************************)
(* State                                                                   *)
(***************************************************************************)
VARIABLES
  source,         \* content of config/opus-registry.json
  registryCache,  \* the module-level singleton of asana-registry.ts
  cacheAge,       \* time units since registryCache was last assigned
  lastCall,       \* the latest stand-alone registry call and what it returned
  tasks,          \* the tasks stored in the external service, by gid
  invCount,       \* number of invocation slots the host runs
  inv             \* per invocation: position, locals and trace

vars == <<source, registryCache, cacheAge, lastCall, tasks, invCount, inv>>

Slots == 1..2
Invs == 1..invCount

DefaultMaxRetries == 2

ProjectRefs == {<<" ", "O", "P", "S">>, <<"d">>, <<"z">>, <<"o", "d">>}
AssigneeRefs == {<<"m", "e">>, <<"B", "@", "X", " ">>, <<"z">>, <<"c", "c">>}

\* due_on as the pipeline runs see it, and the clock and host zones they
\* run with (the due-date functions are exercised on their own with more).
PipelineDueRefs == {NoDue, Due(<<"t", "o", "m", "o", "r", "r", "o", "w">>)}
PipelineInstants == {Instant(2026, 11, 3, 15)}
Zones == {0 - 5, 0, 9}

\* title and notes as the pipeline runs see them: a title without and one
\* with a leading action verb, no notes (the title and notes functions are
\* exercised on their own with more).
PipelineTitles == {<<"x">>, <<"f", "i", "x", " ", "x">>}
PipelineNotes == {NoNotes}

Requests ==
  [project : ProjectRefs, assignee : AssigneeRefs, title : PipelineTitles,
   notes : PipelineNotes, due_on : PipelineDueRefs]

\* Inputs of stand-alone resolver calls: the references above, a name part,
\* an input that is one person's full name and a part of another's name, an
\* input that is one project's alias and contains another's routing keyword,
\* and a sentence containing a routing keyword.
PersonInputs == AssigneeRefs \cup {<<"A", "L">>, <<"b", "o">>}
ProjectInputs ==
  ProjectRefs \cup {<<"d", "e", "v", "o", "p", "s">>, <<"x", " ", "o", "p">>}

NoRequest ==
  [project |-> << >>, assignee |-> << >>, title |-> << >>, notes |-> NoNotes,
   due_on |-> NoDue]
NoTask ==
  [name |-> << >>, notes |-> << >>, assignee |-> << >>, projects |-> << >>,
   due_on |-> << >>]
NoResult == [success |-> FALSE, error |-> NoError]
Skipped == [kind |-> "skipped"]

\* The task createTaskWithRetry is given when called without the tool.
DirectTask ==
  [name |-> <<"x">>, notes |-> << >>, assignee |-> Al.email,
   projects |-> <<Ops.id>>,
   due_on |-> toISODate(Instant(2026, 11, 4, 0))]

IdleInv ==
  [pc |-> "idle", via |-> "none", req |-> NoRequest, reg |-> Null,
   project |-> Skipped, person |-> Skipped, task |-> NoTask,
   maxRetries |-> 0, retries |-> 0, taskGid |-> 0, waitMs |-> 0, base |-> 0,
   log |-> << >>, outcome |-> "none", result |-> NoResult, thrown |-> NoError]

NoCall == [op |-> "none"]

Init ==
  /\ source \in Sources
  /\ registryCache = Null
  /\ cacheAge = 0
  /\ lastCall = NoCall
  /\ tasks = << >>
  /\ invCount = 1
  /\ inv = [i \in Slots |-> IdleInv]

(***************************************************************************)
(* Environment: the registry file changes, time passes                     *)
(***************************************************************************)
SetSource ==
  /\ \E src \in Sources : src # source /\ source' = src
  /\ UNCHANGED <<registryCache, cacheAge, lastCall, tasks, invCount, inv>>

Tick ==
  /\ cacheAge < MaxTime
  /\ cacheAge' = cacheAge + 1
  /\ UNCHANGED <<source, registryCache, lastCall, tasks, invCount, inv>>

\* How a loadRegistry() call ended: served from the cache, the file could
\* not be read or parsed, its content was rejected, or it was loaded.
LoadOutcome(l, src) ==
  IF ~l.read THEN "cached"
  ELSE IF src.kind # "json" THEN "unreadable"
  ELSE IF l.ret = src.value THEN "loaded"
  ELSE "rejected"

\* A caller other than the tool calls loadRegistry().  lastCall keeps the
\* file content and the cache age the call found, what it returned and how
\* it ended, and (after) how the registry call before it ended.
Load ==
  LET l == loadRegistry(registryCache, source)
  IN /\ registryCache' = l.cache
     /\ cacheAge' = IF l.assigned THEN 0 ELSE cacheAge
     /\ lastCall' = [op |-> "load", src |-> source, age |-> cacheAge,
                     cached |-> Truthy(registryCache),
                     read |-> l.read, ret |-> l.ret,
                     outcome |-> LoadOutcome(l, source),
                     after |-> IF lastCall.op = "load" THEN lastCall.outcome
                               ELSE "none"]
     /\ UNCHANGED <<source, tasks, invCount, inv>>

\* A caller other than the tool calls resolvePersonByAlias(input), input
\* being one of inputs.
ResolvePerson(inputs) ==
  \E input \in inputs :
    LET l == loadRegistry(registryCache, source)
        res == resolvePersonByAlias(l.ret, input)
    IN /\ registryCache' = l.cache
       /\ cacheAge' = IF l.assigned THEN 0 ELSE cacheAge
       /\ lastCall' = [op |-> "resolvePerson", src |-> source, age |-> cacheAge,
                       cached |-> Truthy(registryCache), read |-> l.read, ret |-> l.ret,
                       input |-> input, res |-> res, out |-> res.kind]
       /\ UNCHANGED <<source, tasks, invCount, inv>>

\* A caller other than the tool calls resolveProjectByAlias(input), input
\* being one of inputs.
ResolveProject(inputs) ==
  \E input \in inputs :
    LET l == loadRegistry(registryCache, source)
        res == resolveProjectByAlias(l.ret, input)
    IN /\ registryCache' = l.cache
       /\ cacheAge' = IF l.assigned THEN 0 ELSE cacheAge
       /\ lastCall' = [op |-> "resolveProject", src |-> source, age |-> cacheAge,
                       cached |-> Truthy(registryCache), read |-> l.read, ret |-> l.ret,
                       input |-> input, res |-> res, out |-> res.kind]
       /\ UNCHANGED <<source, tasks, invCount, inv>>

(***************************************************************************)
(* createTaskWithRetry (lib/asana.ts)                                      *)
(***************************************************************************)
Failure(error) == [success |-> FALSE, error |-> error]

\* error.message: the text the constructor was given, the status and the
\* response text interpolated as createAsanaTask and getTaskPermalink do.
message(e) ==
  IF e.msg = "ASANA_ACCESS_TOKEN not configured"
  THEN <<"A", "S", "A", "N", "A", "_", "A", "C", "C", "E", "S", "S", "_", "T", "O", "K", "E", "N", " ", "n", "o", "t", " ", "c", "o", "n", "f", "i", "g", "u", "r", "e", "d">>
  ELSE IF e.msg = "Rate limit exceeded" THEN <<"R", "a", "t", "e", " ", "l", "i", "m", "i", "t", " ", "e", "x", "c", "e", "e", "d", "e", "d">>
  ELSE IF e.msg = "Asana API error"
  THEN <<"A", "s", "a", "n", "a", " ", "A", "P", "I", " ", "e", "r", "r", "o", "r", " ">>
         \o padStart(e.status.n, 3) \o <<":", " ">> \o e.text
  ELSE IF e.msg = "Failed to get task details"
  THEN <<"F", "a", "i", "l", "e", "d", " ", "t", "o", " ", "g", "e", "t", " ", "t", "a", "s", "k", " ", "d", "e", "t", "a", "i", "l", "s", " ">>
         \o padStart(e.status.n, 3) \o <<":", " ">> \o e.text
  ELSE IF e.msg = "No task GID returned from Asana"
  THEN <<"N", "o", " ", "t", "a", "s", "k", " ", "G", "I", "D", " ", "r", "e", "t", "u", "r", "n", "e", "d", " ", "f", "r", "o", "m", " ", "A", "s", "a", "n", "a">>
  ELSE IF e.msg = "No permalink returned from Asana"
  THEN <<"N", "o", " ", "p", "e", "r", "m", "a", "l", "i", "n", "k", " ", "r", "e", "t", "u", "r", "n", "e", "d", " ", "f", "r", "o", "m", " ", "A", "s", "a", "n", "a">>
  ELSE <<"M", "a", "x", " ", "r", "e", "t", "r", "i", "e", "s", " ", "e", "x", "c", "e", "e", "d", "e", "d">>

\* The "specific guidance" of execute's catch block: which hint replaces
\* error.message ("none": the message is passed on as it is).
errorHint(e) ==
  LET errorMessage == message(e)
  IN IF includes(errorMessage, <<"A", "S", "A", "N", "A", "_", "A", "C", "C", "E", "S", "S", "_", "T", "O", "K", "E", "N">>)
     THEN "not_configured"
     ELSE IF includes(errorMessage, <<"R", "a", "t", "e", " ", "l", "i", "m", "i", "t">>)
     THEN "rate_limit"
     ELSE IF includes(errorMessage, <<"4", "0", "1">>)
               \/ includes(errorMessage, <<"4", "0", "3">>)
     THEN "auth_failed"
     ELSE IF includes(errorMessage, <<"4", "0", "4">>) THEN "not_found"
     ELSE "none"

\* An error leaves createTaskWithRetry: the tool's catch block turns it into
\* a failure result; a direct caller receives the exception.
Raise(r, e) ==
  IF r.via = "execute"
  THEN [r EXCEPT !.pc = "done", !.outcome = "returned",
                 !.result = Failure([kind |-> "create_failed", cause |-> e,
                                     hint |-> errorHint(e)])]
  ELSE [r EXCEPT !.pc = "done", !.outcome = "thrown", !.thrown = e]

\* Mutation: the wait ignores Retry-After.
Catch_fixedWait(r, e) ==
  IF e.status = Num(429) /\ r.retries < r.maxRetries - 1
  THEN [r EXCEPT !.pc = "sleep", !.waitMs = 1500]
  ELSE Raise(r, e)

\* Mutation: every error is retried while attempts remain.
Catch_retryAny(r, e) ==
  IF r.retries < r.maxRetries - 1
  THEN [r EXCEPT !.pc = "sleep", !.waitMs = OrOne(e.retryAfter) * 1000 + 500]
  ELSE Raise(r, e)

\* Mutation: a 429 is waited out on the last attempt too.
Catch_sleepOnLast(r, e) ==
  IF e.status = Num(429) /\ r.retries < r.maxRetries
  THEN [r EXCEPT !.pc = "sleep", !.waitMs = OrOne(e.retryAfter) * 1000 + 500]
  ELSE Raise(r, e)

\* The catch block of the retry loop.
Catch(r, e) ==
  IF e.status = Num(429) /\ r.retries < r.maxRetries - 1
  THEN [r EXCEPT !.pc = "sleep", !.waitMs = OrOne(e.retryAfter) * 1000 + 500]
  ELSE Raise(r, e)

\* Entry of createTaskWithRetry: the while condition is tested first.
EnterRetryLoop(r) ==
  IF r.retries < r.maxRetries
  THEN [r EXCEPT !.pc = "create"]
  ELSE Raise(r, AsanaAPIError("Max retries exceeded", Undef, Undef))

\* A trace entry: one createAsanaTask or getTaskPermalink call with the error
\* it raised (NoError when it returned) and the gid it returned or asked for.
Event(op, res, err, gid) == [op |-> op, res |-> res, err |-> err, gid |-> gid]

\* createAsanaTask: token check, POST /tasks, handling of the answer.
createAsanaTask(tokenSet, resp) ==
  IF ~tokenSet
  THEN AsanaAPIError("ASANA_ACCESS_TOKEN not configured", Undef, Undef)
  ELSE IF resp.kind = "429"
  THEN AsanaAPIError("Rate limit exceeded", Num(429), retryAfterOf(resp.header))
  ELSE IF resp.kind = "error"
  THEN [AsanaAPIError("Asana API error", Num(resp.status), Undef)
          EXCEPT !.text = resp.body]
  ELSE IF ~resp.gid
  THEN AsanaAPIError("No task GID returned from Asana", Undef, Undef)
  ELSE NoError

CreateCall(i) ==
  /\ inv[i].pc = "create"
  /\ \E tokenSet \in BOOLEAN, resp \in CreateResponses :
       LET r == inv[i]
           stored == tokenSet /\ resp.kind = "ok"
           e == createAsanaTask(tokenSet, resp)
           gid == IF e = NoError THEN Len(tasks) + 1 ELSE 0
           res == IF ~tokenSet THEN "token"
                  ELSE IF resp.kind = "ok" /\ ~resp.gid THEN "nogid"
                  ELSE resp.kind
           r1 == [r EXCEPT !.log = Append(@, Event("create", res, e, gid))]
       IN /\ stored => Len(tasks) < MaxTasks
          /\ tasks' = IF stored THEN Append(tasks, [by |-> i]) ELSE tasks
          /\ inv' = [inv EXCEPT ![i] =
               IF e # NoError THEN Catch(r1, e)
               ELSE [r1 EXCEPT !.pc = "permalink", !.taskGid = gid]]
  /\ UNCHANGED <<source, registryCache, cacheAge, lastCall, invCount>>

\* getTaskPermalink: token check, GET /tasks/{gid}, handling of the answer.
getTaskPermalink(tokenSet, resp) ==
  IF ~tokenSet
  THEN AsanaAPIError("ASANA_ACCESS_TOKEN not configured", Undef, Undef)
  ELSE IF resp.kind = "error"
  THEN [AsanaAPIError("Failed to get task details", Num(resp.status), Undef)
          EXCEPT !.text = resp.body]
  ELSE IF ~resp.link
  THEN AsanaAPIError("No permalink returned from Asana", Undef, Undef)
  ELSE NoError

PermalinkCall(i) ==
  /\ inv[i].pc = "permalink"
  /\ \E tokenSet \in BOOLEAN, resp \in PermalinkResponses :
       LET r == inv[i]
           e == getTaskPermalink(tokenSet, resp)
           res == IF ~tokenSet THEN "token"
                  ELSE IF resp.kind = "ok" /\ ~resp.link THEN "nolink"
                  ELSE IF resp.kind = "error" /\ resp.status = 429 THEN "429"
                  ELSE resp.kind
           r1 == [r EXCEPT !.log = Append(@, Event("permalink", res, e, r.taskGid))]
       IN inv' = [inv EXCEPT ![i] =
            IF e # NoError THEN Catch(r1, e)
            ELSE [r1 EXCEPT !.pc = "done", !.outcome = "returned",
                            !.result = [success |-> TRUE, taskId |-> r.taskGid,
                                        permalink |-> r.taskGid]]]
  /\ UNCHANGED <<source, registryCache, cacheAge, lastCall, tasks, invCount>>

\* Mutation: retries is one counter shared by all invocations.
Sleep_sharedCounter(i) ==
  /\ inv[i].pc = "sleep"
  /\ LET r == inv[i]
         r1 == [r EXCEPT !.log = Append(@, [op |-> "sleep", ms |-> r.waitMs]),
                         !.retries = @ + 1, !.waitMs = 0]
     IN inv' = [k \in Slots |->
                  IF k = i THEN EnterRetryLoop(r1)
                  ELSE [inv[k] EXCEPT !.retries = @ + 1]]
  /\ UNCHANGED <<source, registryCache, cacheAge, lastCall, tasks, invCount>>

\* The setTimeout of the catch block fires; retries++ and the loop test.
Sleep(i) ==
  /\ inv[i].pc = "sleep"
  /\ LET r == inv[i]
         r1 == [r EXCEPT !.log = Append(@, [op |-> "sleep", ms |-> r.waitMs]),
                         !.retries = @ + 1, !.waitMs = 0]
     IN inv' = [inv EXCEPT ![i] = EnterRetryLoop(r1)]
  /\ UNCHANGED <<source, registryCache, cacheAge, lastCall, tasks, invCount>>

\* createTaskWithRetry called by a caller other than the tool.
CallCreateWithRetry(i) ==
  /\ inv[i].pc = "idle"
  /\ Len(tasks) < MaxTasks
  /\ \E m \in 0..MaxAttempts :
       inv' = [inv EXCEPT ![i] =
         EnterRetryLoop([IdleInv EXCEPT !.via = "direct", !.task = DirectTask,
                                        !.maxRetries = m, !.base = Len(tasks)])]
  /\ UNCHANGED <<source, registryCache, cacheAge, lastCall, tasks, invCount>>

(***************************************************************************)
(* asanaCreateTask.execute                                                 *)
(***************************************************************************)
\* Mutation: the unknown-project branch consults the policy for people.
UnknownProject_byPersonPolicy(registry, req, availableProjects) ==
  [kind |-> "return",
   error |-> [kind |-> "unknown_project",
              mode |-> IF registry.policy.on_unknown_person = "ask"
                       THEN "ask" ELSE "reject",
              input |-> req.project, available |-> availableProjects]]

\* execute's branch for a project reference that resolves to nothing.
UnknownProject(registry, req, availableProjects) ==
  [kind |-> "return",
   error |-> [kind |-> "unknown_project",
              mode |-> IF registry.policy.on_unknown_project = "ask"
                       THEN "ask" ELSE "reject",
              input |-> req.project, available |-> availableProjects]]

\* Mutation: an unknown assignee is passed through as typed.
UnknownPerson_passThrough(registry, req, resolvedProject, availablePeople) ==
  [kind |-> "create", project |-> resolvedProject,
   task |-> [assignee |-> req.assignee, projects |-> <<resolvedProject.id>>]]

\* execute's branch for an assignee reference that resolves to nothing.
UnknownPerson(registry, req, resolvedProject, availablePeople) ==
  [kind |-> "return",
   error |-> [kind |-> "unknown_person",
              mode |-> IF registry.policy.on_unknown_person = "ask"
                       THEN "ask" ELSE "reject",
              input |-> req.assignee, available |-> availablePeople]]

\* The validation sequence of execute: project, then person, then
\* permission.  registry is what execute's own loadRegistry() call returned,
\* helperRegistry what the loadRegistry() calls of the listing helpers
\* return; the result says how execute goes on.
Validate(registry, helperRegistry, req, resolvedProject, resolvedPerson) ==
  IF resolvedProject = Thrown THEN [kind |-> "throw"]
  ELSE IF resolvedProject = NotFound
  THEN UnknownProject(registry, req, getAvailableProjects(helperRegistry))
  ELSE IF resolvedPerson = Thrown THEN [kind |-> "throw"]
  ELSE IF resolvedPerson = NotFound
  THEN UnknownPerson(registry, req, resolvedProject.entry,
                     getAvailablePeople(helperRegistry))
  ELSE IF ~isAssigneeAllowedForProject(resolvedPerson.entry.email,
                                       resolvedProject.entry)
  THEN [kind |-> "return",
        error |-> [kind |-> "not_allowed",
                   allowed |-> getAllowedAssigneesForProject(resolvedProject.entry)]]
  ELSE [kind |-> "create", project |-> resolvedProject.entry,
        task |-> [assignee |-> resolvedPerson.entry.email,
                  projects |-> <<resolvedProject.entry.id>>]]

\* The synchronous part of execute, up to the first network call.  Every
\* registry helper calls loadRegistry() again and works on what that call
\* returns; a helper that iterates over a missing section throws a
\* TypeError, which nothing in execute catches.  The request is one of
\* requests.
ExecuteOn(i, requests) ==
  /\ inv[i].pc = "idle"
  /\ Len(tasks) < MaxTasks
  /\ \E req \in requests, today \in PipelineInstants, tz \in Zones :
       LET l1 == loadRegistry(registryCache, source)
           l2 == loadRegistry(l1.cache, source)
           resolvedProject == resolveProjectByAlias(l2.ret, req.project)
           resolvedPerson ==
             IF resolvedProject.kind = "found"
             THEN resolvePersonByAlias(l2.ret, req.assignee)
             ELSE Skipped
           v == Validate(l1.ret, l2.ret, req, resolvedProject, resolvedPerson)
           r == [IdleInv EXCEPT !.via = "execute", !.req = req, !.reg = l2.ret,
                                !.project = resolvedProject,
                                !.person = resolvedPerson,
                                !.base = Len(tasks)]
       IN /\ registryCache' = l2.cache
          /\ cacheAge' = IF l1.assigned THEN 0 ELSE cacheAge
          /\ inv' = [inv EXCEPT ![i] =
               IF v.kind = "throw"
               THEN [r EXCEPT !.pc = "done", !.outcome = "thrown",
                              !.thrown = [msg |-> "TypeError"]]
               ELSE IF v.kind = "return"
               THEN [r EXCEPT !.pc = "done", !.outcome = "returned",
                              !.result = Failure(v.error)]
               ELSE LET refined ==
                          applyProjectContext(v.project, req.title, req.notes)
                    IN EnterRetryLoop(
                         [r EXCEPT !.maxRetries = DefaultMaxRetries,
                                   !.task = [name |-> refined.name,
                                             notes |-> refined.notes,
                                             assignee |-> v.task.assignee,
                                             projects |-> v.task.projects,
                                             due_on |-> formattedDueDate(
                                               req.due_on, v.project, l2.ret,
                                               today, tz)]])]
  /\ UNCHANGED <<source, lastCall, tasks, invCount>>

Execute(i) == ExecuteOn(i, Requests)

\* The caller has consumed the outcome; the slot can run another invocation.
Finish(i) ==
  /\ inv[i].pc = "done"
  /\ inv' = [inv EXCEPT ![i] = IdleInv]
  /\ UNCHANGED <<source, registryCache, cacheAge, lastCall, tasks, invCount>>

Next ==
  \/ \E i \in Invs : Execute(i)
  \/ \E i \in Invs : CallCreateWithRetry(i)
  \/ \E i \in Invs : CreateCall(i)
  \/ \E i \in Invs : PermalinkCall(i)
  \/ \E i \in Invs : Sleep(i)
  \/ \E i \in Invs : Finish(i)

\* The task pipeline: tool invocations and direct uses of the client, over
\* whatever the registry file holds.
Spec == Init /\ [][Next]_vars

\* The pipeline with a service that answers every request and a timer that
\* fires: a pending fetch or setTimeout does not stay pending forever.
TerminationSpec ==
  /\ Spec
  /\ \A i \in Slots :
       /\ WF_vars(CreateCall(i))
       /\ WF_vars(PermalinkCall(i))
       /\ WF_vars(Sleep(i))

NextRegistry ==
  \/ SetSource
  \/ Tick
  \/ Load
  \/ ResolvePerson(AssigneeRefs)
  \/ ResolveProject(ProjectRefs)

\* The registry store on its own: loads and resolver calls while the file
\* changes and time passes.
RegistrySpec == Init /\ [][NextRegistry]_vars

\* Two different requests that pass validation under RegistryA.
ConcurrentRequests ==
  {[project |-> <<" ", "O", "P", "S">>, assignee |-> <<"m", "e">>,
    title |-> <<"x">>, notes |-> NoNotes, due_on |-> NoDue],
   [project |-> <<"d">>, assignee |-> <<"B", "@", "X", " ">>,
    title |-> <<"x">>, notes |-> NoNotes,
    due_on |-> Due(<<"t", "o", "m", "o", "r", "r", "o", "w">>)]}

InitConcurrent ==
  /\ source = [kind |-> "json", value |-> RegistryA]
  /\ registryCache = Null
  /\ cacheAge = 0
  /\ lastCall = NoCall
  /\ tasks = << >>
  /\ invCount = 2
  /\ inv = [i \in Slots |-> IdleInv]

NextConcurrent ==
  \/ \E i \in Invs : ExecuteOn(i, ConcurrentRequests)
  \/ \E i \in Invs : CreateCall(i)
  \/ \E i \in Invs : PermalinkCall(i)
  \/ \E i \in Invs : Sleep(i)

\* Two tool invocations running at once on the event loop: each step is
\* the code one of them runs between two suspension points.
ConcurrentSpec == InitConcurrent /\ [][NextConcurrent]_vars

NextLongRun ==
  \/ SetSource
  \/ \E i \in Invs : Execute(i)
  \/ \E i \in Invs : CreateCall(i)
  \/ \E i \in Invs : PermalinkCall(i)
  \/ \E i \in Invs : Sleep(i)
  \/ \E i \in Invs : Finish(i)

\* The tool invoked again and again by a long-running host while the
\* registry file is edited.
LongRunSpec == Init /\ [][NextLongRun]_vars

\* The due_on arguments the due-date functions are exercised with: absent,
\* empty, relative phrases, unparseable text, and absolute dates (long past,
\* less than a year past, 29 February, around the turn of the year, future).
DueInputs ==
  {NoDue, Due(<< >>),
   Due(<<"T", "o", "d", "a", "y">>),
   Due(<<"b", "y", " ", "t", "o", "m", "o", "r", "r", "o", "w", " ">>),
   Due(<<"n", "e", "x", "t", " ", "w", "e", "e", "k">>),
   Due(<<"N", "e", "x", "t", " ", "M", "o", "n", "d", "a", "y">>),
   Due(<<"n", "e", "x", "t", " ", "f", "r", "i", "d", "a", "y">>),
   Due(<<"i", "n", " ", "0", " ", "d", "a", "y", "s">>),
   Due(<<"i", "n", " ", "1", " ", "d", "a", "y">>),
   Due(<<"i", "n", " ", "1", "0", " ", "d", "a", "y", "s">>),
   Due(<<"s", "o", "o", "n">>),
   Due(<<"2", "0", "2", "4", "-", "0", "3", "-", "0", "5">>),
   Due(<<"2", "0", "2", "4", "-", "0", "2", "-", "2", "9">>),
   Due(<<"2", "0", "2", "6", "-", "0", "1", "-", "0", "1">>),
   Due(<<"2", "0", "2", "6", "-", "1", "1", "-", "0", "4">>),
   Due(<<"2", "0", "2", "6", "-", "1", "2", "-", "3", "1">>),
   Due(<<"2", "0", "2", "7", "-", "0", "1", "-", "0", "1">>),
   Due(<<"2", "0", "2", "8", "-", "0", "6", "-", "0", "1">>)}

\* Times of invocation: every day of one week at the first, a middle and the
\* last hour of the UTC day, and the hours around two turns of the year.
Instants ==
  {Instant(2026, 11, d, h) : d \in 1..7, h \in {0, 9, 23}}
    \cup {Instant(2026, 12, 31, 23), Instant(2027, 1, 1, 1),
          Instant(2027, 12, 31, 20), Instant(2028, 1, 1, 0)}

\* formatDueDate called on its own (the functions are pure: one call per
\* behaviour covers them).
CallFormatDueDate ==
  /\ lastCall = NoCall
  /\ \E due \in DueInputs, today \in Instants, tz \in Zones :
       lastCall' = [op |-> "formatDueDate", input |-> due, today |-> today,
                    tz |-> tz, out |-> formatDueDate(due, today, tz)]
  /\ UNCHANGED <<source, registryCache, cacheAge, tasks, invCount, inv>>

\* The due date execute computes for a resolved project, over the offsets a
\* registry can configure (sla absent, or 0..MaxOffset days; 0..MaxOffset
\* days for the project's and the registry's defaults).
CallFormattedDueDate ==
  /\ lastCall = NoCall
  /\ \E due \in DueInputs, today \in Instants, tz \in Zones,
        has_sla \in BOOLEAN, sla \in 0..MaxOffset,
        projectDays \in 0..MaxOffset, registryDays \in 0..MaxOffset :
       LET project ==
             [Dev EXCEPT !.context.has_sla = has_sla,
                         !.context.sla = [default_due_days_from_now |->
                                            IF has_sla THEN sla ELSE 0],
                         !.defaults = [due_days_from_now |-> projectDays]]
           registry ==
             [RegistryA EXCEPT !.defaults =
                                 [default_due_days_from_now |-> registryDays]]
       IN lastCall' = [op |-> "formattedDueDate", input |-> due,
                       today |-> today, tz |-> tz,
                       context |-> project.context,
                       projectDays |-> projectDays,
                       registryDays |-> registryDays,
                       out |-> formattedDueDate(due, project, registry, today, tz)]
  /\ UNCHANGED <<source, registryCache, cacheAge, tasks, invCount, inv>>

InitDueDate == Init /\ source = [kind |-> "json", value |-> RegistryA]

NextDueDate ==
  \/ CallFormatDueDate
  \/ CallFormattedDueDate

\* The due-date functions on their own, over inputs, clocks, host zones and
\* configured offsets.
DueDateSpec == InitDueDate /\ [][NextDueDate]_vars

\* The rules the title and notes functions are exercised with: four rules
\* in declared order, the second with two keywords, one in capitals.
SampleRules ==
  << [when |-> [contains_any |-> << <<"b", "u", "g">> >>],
      then |-> [append_note |-> <<"#", "b">>]],
     [when |-> [contains_any |-> << <<"A", "S", "A", "P">>, <<"u", "r", "g", "e", "n", "t">> >>],
      then |-> [append_note |-> <<"#", "a">>]],
     [when |-> [contains_any |-> << <<"m", "e", "e", "t", "i", "n", "g">> >>],
      then |-> [append_note |-> <<"#", "m">>]],
     [when |-> [contains_any |-> << <<"f", "r", "i">> >>],
      then |-> [append_note |-> <<"#", "f">>]] >>

\* Projects for them: without rules; one verb rule and the sample rules
\* with guidance; two verb rules among others, the sample rules and a notes
\* template; title rules that mention no verb.
RuleProjects ==
  {Dev,
   [Dev EXCEPT !.notes_guidance = <<"G", "1">>,
               !.context.title_rules = << <<"S", "t", "a", "r", "t", " ", "w", "i", "t", "h", " ", "a", " ", "s", "t", "r", "o", "n", "g", " ", "v", "e", "r", "b">> >>,
               !.context.rules = SampleRules],
   [Dev EXCEPT !.context.title_rules =
                 << <<"I", "n", "c", "l", "u", "d", "e", " ", "c", "u", "s", "t", "o", "m", "e", "r", " ", "n", "a", "m", "e">>, <<"U", "s", "e", " ", "a", " ", "V", "E", "R", "B">>, <<"v", "e", "r", "b", "s", " ", "f", "i", "r", "s", "t">> >>,
               !.context.rules = SampleRules,
               !.context.has_template = TRUE,
               !.context.notes_template = <<"{", "g", "o", "a", "l", "}", " ", "f", "o", "r", " ", "{", "c", "u", "s", "t", "o", "m", "e", "r", "}">>],
   [Dev EXCEPT !.context.title_rules =
                 << <<"I", "n", "c", "l", "u", "d", "e", " ", "d", "e", "l", "i", "v", "e", "r", "a", "b", "l", "e", " ", "a", "n", "d", " ", "r", "e", "c", "i", "p", "i", "e", "n", "t">> >>]}

TitleInputs ==
  {<<"f", "i", "x", " ", "t", "h", "e", " ", "m", "e", "e", "t", "i", "n", "g", " ", "b", "u", "g", " ", "a", "s", "a", "p">>, <<"E", "m", "a", "i", "l", " ", "b", "o", "b">>, <<" ", "p", "l", "a", "n", " ", "c", "a", "l", "l", " ">>, <<"w", "r", "i", "t", "e", " ", "r", "e", "p", "o", "r", "t">>,
   <<"x">>, << >>, <<"D", "E", "B", "U", "G", " ", "f", "r", "i", "d", "a", "y">>, <<"u", "r", "g", "e", "n", "t", " ", "f", "i", "x">>}

NotesInputs == {NoNotes, Notes(<< >>), Notes(<<"u", "r", "g", "e", "n", "t", " ", "n", "1">>), Notes(<<"n", "2">>)}

\* refineTitle called on its own.
CallRefineTitle ==
  /\ lastCall = NoCall
  /\ \E project \in RuleProjects, title \in TitleInputs :
       lastCall' = [op |-> "refineTitle", project |-> project, title |-> title,
                    out |-> refineTitle(project, title)]
  /\ UNCHANGED <<source, registryCache, cacheAge, tasks, invCount, inv>>

\* synthesizeNotes called on its own.
CallSynthesizeNotes ==
  /\ lastCall = NoCall
  /\ \E project \in RuleProjects, notes \in NotesInputs, title \in TitleInputs :
       lastCall' = [op |-> "synthesizeNotes", project |-> project,
                    notes |-> notes, title |-> title,
                    out |-> synthesizeNotes(project, notes, title)]
  /\ UNCHANGED <<source, registryCache, cacheAge, tasks, invCount, inv>>

NextRules ==
  \/ CallRefineTitle
  \/ CallSynthesizeNotes

\* The title and notes functions on their own, over projects, titles and
\* notes.
RuleSpec == InitDueDate /\ [][NextRules]_vars

NextResolver ==
  \/ ResolvePerson(PersonInputs)
  \/ ResolveProject(ProjectInputs)

\* The two resolvers on their own, over whatever the registry file holds,
\* with the larger set of inputs.
ResolverSpec == Init /\ [][NextResolver]_vars

(***************************************************************************)
(* Vocabulary of the properties                                            *)
(***************************************************************************)
\* The tasks the service stored because of invocation i.
TasksOf(i) == {g \in (inv[i].base + 1)..Len(tasks) : tasks[g].by = i}

\* The invocation has issued, or is issuing, a call of the Task Client.
Issued(r) == r.pc \in {"create", "permalink", "sleep"} \/ r.log # << >>

IsMember(email, project) ==
  \E k \in 1..Len(project.allowed_assignees) : project.allowed_assignees[k] = email

\* The invocation ended with {success: false} and never reached the client.
HaltedBeforeNetwork(i) ==
  /\ inv[i].pc = "done"
  /\ inv[i].outcome = "returned"
  /\ ~inv[i].result.success
  /\ inv[i].log = << >>
  /\ TasksOf(i) = {}

\* retries at the time trace entry k was made.
SleepsBefore(r, k) == Cardinality({j \in 1..(k - 1) : r.log[j].op = "sleep"})

CreateEntries(r) == {k \in 1..Len(r.log) : r.log[k].op = "create"}

\* Error e is what the finished invocation surfaced: thrown to a direct
\* caller, or wrapped in the tool's failure result.
Surfaced(r, e) ==
  /\ r.pc = "done"
  /\ IF r.via = "direct"
     THEN r.outcome = "thrown" /\ r.thrown = e
     ELSE r.outcome = "returned"
            /\ r.result = Failure([kind |-> "create_failed", cause |-> e,
                                   hint |-> errorHint(e)])

(***************************************************************************)
(* Properties                                                              *)
(***************************************************************************)
\* C1: when project and assignee both resolve, a Task Client call is issued
\* only if the person's email is in the project's allowed_assignees; when it
\* is not, the invocation returns {success: false} with no network call.
C1_PermissionGate ==
  \A i \in Invs :
    LET r == inv[i]
    IN (r.via = "execute" /\ r.project.kind = "found" /\ r.person.kind = "found")
         => /\ Issued(r) => IsMember(r.person.entry.email, r.project.entry)
            /\ ~IsMember(r.person.entry.email, r.project.entry)
                 => HaltedBeforeNetwork(i)

C1_Witness ==
  \E i \in Invs :
    /\ inv[i].via = "execute"
    /\ inv[i].project.kind = "found" /\ inv[i].person.kind = "found"
    /\ ~IsMember(inv[i].person.entry.email, inv[i].project.entry)
    /\ inv[i].pc = "done"

\* C2: when the project reference or the assignee reference resolves to no
\* registry entry, the invocation returns {success: false} with zero create
\* calls and zero permalink calls, and the service holds no task of it.
C2_UnresolvedHalts ==
  \A i \in Invs :
    (inv[i].via = "execute"
       /\ (inv[i].project = NotFound \/ inv[i].person = NotFound))
      => HaltedBeforeNetwork(i)

C2_Witness ==
  \E i \in Invs :
    /\ inv[i].via = "execute"
    /\ inv[i].project.kind = "found"
    /\ inv[i].person = NotFound
    /\ inv[i].pc = "done"

\* C3: for every sequence of service answers, a tool invocation that returns
\* success: true has caused exactly one task to be created in the service
\* (stated for invocations that worked on a registry passing validation).
C3_ExactlyOneTask ==
  \A i \in Invs :
    (inv[i].via = "execute" /\ inv[i].reg \in ValidDocs /\ inv[i].pc = "done"
       /\ inv[i].outcome = "returned" /\ inv[i].result.success)
      => Cardinality(TasksOf(i)) = 1

\* C4: every tool invocation ends by returning a success result or a
\* {success: false, error} result; nothing is thrown to the caller.
C4_NeverThrows ==
  \A i \in Invs :
    (inv[i].via = "execute" /\ inv[i].pc = "done") => inv[i].outcome = "returned"

\* C5: a 429 on the create call with Retry-After = r and attempts remaining
\* is followed by a sleep of at least r + 0.5 seconds and then by another
\* create call; a success returns the id and permalink of the task made by
\* the last create call.
C5_BackoffThenFullRetry ==
  \A i \in Invs :
    LET r == inv[i]
        n == Len(r.log)
    IN /\ \A k \in CreateEntries(r) :
            (r.log[k].res = "429" /\ r.log[k].err.retryAfter.t = "num"
               /\ SleepsBefore(r, k) < r.maxRetries - 1)
              => LET ms == r.log[k].err.retryAfter.n * 1000 + 500
                 IN /\ k = n => r.pc = "sleep" /\ r.waitMs >= ms
                    /\ k < n => r.log[k + 1].op = "sleep" /\ r.log[k + 1].ms >= ms
                    /\ k + 1 = n => r.pc = "create"
                    /\ k + 1 < n => r.log[k + 2].op = "create"
       /\ (r.pc = "done" /\ r.outcome = "returned" /\ r.result.success)
            => LET c == CHOOSE k \in CreateEntries(r) :
                          \A j \in CreateEntries(r) : j <= k
               IN /\ r.result.taskId = r.log[c].gid
                  /\ r.result.permalink = r.log[c].gid
                  /\ r.log[c].gid \in TasksOf(i)
                  /\ c = n - 1

C5_Witness ==
  \E i \in Invs :
    /\ inv[i].pc = "done" /\ inv[i].outcome = "returned" /\ inv[i].result.success
    /\ Len(inv[i].log) = 4
    /\ inv[i].log[1].op = "create" /\ inv[i].log[1].res = "429"
    /\ inv[i].log[1].err.retryAfter = Num(2)
    /\ inv[i].log[2].op = "sleep" /\ inv[i].log[2].ms = 2500

\* C6: an error that is not a 429 condition leaves createWithRetry on the
\* attempt where it occurs: it is the last trace entry, no sleep and no call
\* follows it, and it is the error surfaced.
C6_OtherErrorsPropagate ==
  \A i \in Invs :
    \A k \in 1..Len(inv[i].log) :
      (inv[i].log[k].op \in {"create", "permalink"}
         /\ inv[i].log[k].err # NoError
         /\ inv[i].log[k].err.status # Num(429))
        => k = Len(inv[i].log) /\ Surfaced(inv[i], inv[i].log[k].err)

C6_Witness ==
  \E i \in Invs :
    LET r == inv[i]
    IN /\ r.pc = "done" /\ r.log # << >>
       /\ r.log[Len(r.log)].op = "permalink"
       /\ r.log[Len(r.log)].err = AsanaAPIError("No permalink returned from Asana",
                                                 Undef, Undef)
       /\ r.retries < r.maxRetries - 1

\* C7: when every one of the maxAttempts >= 1 attempts is answered 429 on
\* the create call, the error surfaced is max-retries-exceeded, not the
\* rate-limit error of the last attempt.
C7_MaxRetriesExceeded ==
  \A i \in Invs :
    LET r == inv[i]
    IN (r.pc = "done" /\ r.maxRetries >= 1
          /\ Cardinality(CreateEntries(r)) = r.maxRetries
          /\ \A k \in CreateEntries(r) : r.log[k].res = "429")
         => Surfaced(r, AsanaAPIError("Max retries exceeded", Undef, Undef))

\* C8: a load that finds the registry file missing or unparseable returns a
\* registry with no people, no projects and the reject policy, and a
\* resolver working on it finds nothing.
C8_SafeDefaultOnFailure ==
  (lastCall.op # "none" /\ lastCall.read
     /\ lastCall.src.kind \in {"missing", "malformed"})
    => /\ lastCall.ret.people = << >>
       /\ lastCall.ret.projects = << >>
       /\ lastCall.ret.policy.on_unknown_project = "reject"
       /\ lastCall.ret.policy.on_unknown_person = "reject"
       /\ lastCall.op \in {"resolvePerson", "resolveProject"}
            => lastCall.out = "none"

C8_Witness ==
  /\ lastCall.op = "resolvePerson"
  /\ lastCall.read
  /\ lastCall.src.kind = "malformed"
  /\ lastCall.out = "none"

\* C9: a document that parses but lacks version, meta, people or projects is
\* never returned by a load, first or later, nor used by a resolver.
C9_InvalidNeverReturned ==
  lastCall.op # "none" => lastCall.ret \notin InvalidDocs

\* C10 as stated: a load made after the refresh window has expired reads
\* the registry file again.
C10_RefreshAfterWindow ==
  (lastCall.op = "load" /\ lastCall.age > RefreshWindow)
    => /\ lastCall.read
       /\ (lastCall.src.kind = "json" /\ lastCall.src.value \in ValidDocs)
            => lastCall.ret = lastCall.src.value

\* C10 amended: there is no refresh window.  A load made while the cache
\* holds a document returns that document without reading the file, however
\* old the cache is; the file is read only while the cache is empty.
C10_CacheNeverRefreshed ==
  lastCall.op = "load"
    => /\ lastCall.cached => ~lastCall.read /\ lastCall.ret = registryCache
       /\ ~lastCall.cached => lastCall.read

C10_Witness ==
  /\ lastCall.op = "load"
  /\ lastCall.cached
  /\ lastCall.age = MaxTime
  /\ ~lastCall.read
  /\ lastCall.src.kind = "json" /\ lastCall.src.value \in ValidDocs
  /\ lastCall.ret \in ValidDocs
  /\ lastCall.ret # lastCall.src.value

\* How the listing shows project p: its name and, in parentheses, its first
\* alias ("no alias" when it has none).
ListedAs(p) ==
  p.name \o <<" ", "(">>
    \o (IF p.aliases = << >> THEN <<"n", "o", " ", "a", "l", "i", "a", "s">>
        ELSE p.aliases[1])
    \o <<")">>

\* C11: when the project reference resolves to no project and the registry's
\* on_unknown_project policy is 'ask', the invocation makes no network call
\* and its error lists exactly the active projects of the registry, each by
\* name and first alias, and no inactive project.
C11_UnknownProjectListsActive ==
  \A i \in Invs :
    LET r == inv[i]
        ps == r.reg.projects
        av == r.result.error.available
    IN (r.via = "execute" /\ r.project = NotFound
          /\ r.reg.policy.on_unknown_project = "ask")
         => /\ HaltedBeforeNetwork(i)
            /\ r.result.error.kind = "unknown_project"
            /\ \A k \in 1..Len(ps) :
                 ps[k].active => \E j \in 1..Len(av) : av[j] = ListedAs(ps[k])
            /\ \A j \in 1..Len(av) :
                 \E k \in 1..Len(ps) : ps[k].active /\ av[j] = ListedAs(ps[k])
            /\ Len(av) = Cardinality({k \in 1..Len(ps) : ps[k].active})

C11_Witness ==
  \E i \in Invs :
    /\ inv[i].via = "execute" /\ inv[i].pc = "done"
    /\ inv[i].project = NotFound
    /\ inv[i].reg = RegistryA
    /\ inv[i].result.error.kind = "unknown_project"
    /\ inv[i].result.error.mode = "ask"
    /\ Len(inv[i].result.error.available) = 3

\* C19: validation runs project, then person, then permission.  An unknown
\* project reference ends the invocation with the unknown-project error in
\* the mode on_unknown_project prescribes, whatever the assignee reference
\* is (the person is not even resolved); a resolved project with an unknown
\* assignee ends it with the unknown-person error in the mode
\* on_unknown_person prescribes; only then is membership tested.  Stated for
\* invocations working on a registry that passes validation.
C19_ValidationOrder ==
  \A i \in Invs :
    LET r == inv[i]
    IN (r.via = "execute" /\ r.reg \in ValidDocs)
         => /\ r.project = NotFound
                 => /\ r.pc = "done" /\ r.outcome = "returned"
                    /\ r.person = Skipped
                    /\ r.result.error.kind = "unknown_project"
                    /\ r.result.error.mode = r.reg.policy.on_unknown_project
            /\ (r.project.kind = "found" /\ r.person = NotFound)
                 => /\ r.pc = "done" /\ r.outcome = "returned"
                    /\ r.result.error.kind = "unknown_person"
                    /\ r.result.error.mode = r.reg.policy.on_unknown_person
            /\ (r.pc = "done" /\ r.outcome = "returned" /\ ~r.result.success
                  /\ r.result.error.kind = "not_allowed")
                 => r.project.kind = "found" /\ r.person.kind = "found"

\* Both references unknown, under a registry whose two policies differ.
C19_Witness ==
  \E i \in Invs :
    /\ inv[i].via = "execute" /\ inv[i].pc = "done"
    /\ inv[i].reg = RegistryB
    /\ inv[i].req.project = <<"z">> /\ inv[i].req.assignee = <<"z">>
    /\ inv[i].result.error.kind = "unknown_project"
    /\ inv[i].result.error.mode = "reject"

\* C14: a tool invocation never holds a resolved project or person whose
\* active flag is false, and every task it hands to the Task Client names
\* only active entries of the registry it worked on, even when the request
\* used the alias of an inactive project or person.
C14_InactiveNeverResolved ==
  \A i \in Invs :
    LET r == inv[i]
    IN r.via = "execute"
         => /\ r.project.kind = "found" => r.project.entry.active
            /\ r.person.kind = "found" => r.person.entry.active
            /\ Issued(r)
                 => /\ \A k \in 1..Len(r.reg.projects) :
                         r.reg.projects[k].id = r.task.projects[1]
                           => r.reg.projects[k].active
                    /\ \A k \in 1..Len(r.reg.people) :
                         r.reg.people[k].email = r.task.assignee
                           => r.reg.people[k].active

\* The request names the inactive project by its alias.
C14_Witness ==
  \E i \in Invs :
    /\ inv[i].via = "execute" /\ inv[i].reg = RegistryA
    /\ inv[i].req.project = Old.aliases[1]
    /\ ~Old.active
    /\ inv[i].project = NotFound
    /\ HaltedBeforeNetwork(i)

\* Case-insensitive equality of two strings.
EqualsCI(a, b) == toLowerCase(a) = toLowerCase(b)

\* The input as the resolvers compare it: lower-cased, surrounding
\* whitespace removed.
Normalized(input) == trim(toLowerCase(input))

\* t is one of the pieces of name between single spaces.
IsNamePart(t, name) ==
  /\ \A k \in 1..Len(t) : t[k] # " "
  /\ includes(<<" ">> \o name \o <<" ">>, <<" ">> \o t \o <<" ">>)

\* The criteria under which resolvePersonByAlias accepts person p.
PersonCriteria(p, input) ==
  \/ toLowerCase(p.email) = Normalized(input)
  \/ \E k \in 1..Len(p.aliases) : toLowerCase(p.aliases[k]) = Normalized(input)
  \/ toLowerCase(p.name) = Normalized(input)
  \/ IsNamePart(Normalized(input), toLowerCase(p.name))

\* The criteria under which resolveProjectByAlias accepts project p.
ProjectCriteria(p, input) ==
  \/ toLowerCase(p.name) = Normalized(input)
  \/ \E k \in 1..Len(p.aliases) : toLowerCase(p.aliases[k]) = Normalized(input)
  \/ \E k \in 1..Len(p.routing_keywords) :
       includes(Normalized(input), toLowerCase(p.routing_keywords[k]))

\* C13 as stated: person p is returned exactly when the input equals,
\* case-insensitively, p's email, name or one of its aliases; project p is
\* returned exactly when the input equals its name or an alias or contains
\* one of its routing keywords.
C13_ExactMatchOnly ==
  /\ (lastCall.op = "resolvePerson" /\ lastCall.ret.has_people)
       => \A k \in 1..Len(lastCall.ret.people) :
            LET p == lastCall.ret.people[k]
            IN (lastCall.res = [kind |-> "found", entry |-> p])
                 <=> \/ EqualsCI(lastCall.input, p.email)
                     \/ EqualsCI(lastCall.input, p.name)
                     \/ \E a \in 1..Len(p.aliases) :
                          EqualsCI(lastCall.input, p.aliases[a])
  /\ (lastCall.op = "resolveProject" /\ lastCall.ret.has_projects)
       => \A k \in 1..Len(lastCall.ret.projects) :
            LET p == lastCall.ret.projects[k]
            IN (lastCall.res = [kind |-> "found", entry |-> p])
                 <=> \/ EqualsCI(lastCall.input, p.name)
                     \/ \E a \in 1..Len(p.aliases) :
                          EqualsCI(lastCall.input, p.aliases[a])
                     \/ \E w \in 1..Len(p.routing_keywords) :
                          includes(toLowerCase(lastCall.input),
                                   toLowerCase(p.routing_keywords[w]))

\* C13 amended: a resolver returns an entry exactly when some active entry
\* meets the criteria on the trimmed, lower-cased input (for people: email,
\* alias, full name, or one space-separated part of the name; for projects:
\* name, alias, or a routing keyword contained in the input), and the entry
\* returned is an active one that meets them.
C13_MatchCriteria ==
  /\ (lastCall.op = "resolvePerson" /\ lastCall.ret.has_people)
       => LET ps == lastCall.ret.people
          IN /\ lastCall.res.kind = "found"
                  <=> \E k \in 1..Len(ps) :
                        ps[k].active /\ PersonCriteria(ps[k], lastCall.input)
             /\ lastCall.res.kind = "found"
                  => \E k \in 1..Len(ps) :
                       /\ lastCall.res.entry = ps[k] /\ ps[k].active
                       /\ PersonCriteria(ps[k], lastCall.input)
  /\ (lastCall.op = "resolveProject" /\ lastCall.ret.has_projects)
       => LET ps == lastCall.ret.projects
          IN /\ lastCall.res.kind = "found"
                  <=> \E k \in 1..Len(ps) :
                        ps[k].active /\ ProjectCriteria(ps[k], lastCall.input)
             /\ lastCall.res.kind = "found"
                  => \E k \in 1..Len(ps) :
                       /\ lastCall.res.entry = ps[k] /\ ps[k].active
                       /\ ProjectCriteria(ps[k], lastCall.input)

\* A person returned for an input that is only a part of the name.
C13_Witness ==
  /\ lastCall.op = "resolvePerson"
  /\ lastCall.input = <<"A", "L">>
  /\ lastCall.res = [kind |-> "found", entry |-> Al]
  /\ ~EqualsCI(lastCall.input, Al.name)

\* The priority of the first criterion person p meets: 1 email, 2 alias,
\* 3 full name, 4 name part; 5 when p meets none.
PersonRank(p, input) ==
  IF toLowerCase(p.email) = Normalized(input) THEN 1
  ELSE IF \E k \in 1..Len(p.aliases) : toLowerCase(p.aliases[k]) = Normalized(input)
  THEN 2
  ELSE IF toLowerCase(p.name) = Normalized(input) THEN 3
  ELSE IF IsNamePart(Normalized(input), toLowerCase(p.name)) THEN 4
  ELSE 5

\* C17: the person resolvePersonByAlias returns matches the input by a
\* criterion of the highest priority that any active person of the registry
\* meets: no active person matches by email, alias or full name while the
\* one returned matches only by a lower-priority criterion.
C17_PriorityOverRegistry ==
  (lastCall.op = "resolvePerson" /\ lastCall.ret.has_people
     /\ lastCall.res.kind = "found")
    => \A k \in 1..Len(lastCall.ret.people) :
         lastCall.ret.people[k].active
           => PersonRank(lastCall.res.entry, lastCall.input)
                <= PersonRank(lastCall.ret.people[k], lastCall.input)

ProjectExact(p, input) ==
  \/ toLowerCase(p.name) = Normalized(input)
  \/ \E k \in 1..Len(p.aliases) : toLowerCase(p.aliases[k]) = Normalized(input)

\* C18: when some active project matches the input by exact name or exact
\* alias, resolveProjectByAlias returns a project that matches by exact name
\* or alias, not one that only has a routing keyword contained in the input.
C18_ExactBeforeKeyword ==
  (lastCall.op = "resolveProject" /\ lastCall.ret.has_projects)
    => \A k \in 1..Len(lastCall.ret.projects) :
         (lastCall.ret.projects[k].active
            /\ ProjectExact(lastCall.ret.projects[k], lastCall.input))
           => /\ lastCall.res.kind = "found"
              /\ ProjectExact(lastCall.res.entry, lastCall.input)

\* C15: with two invocations interleaved, each invocation's attempt counter
\* counts its own retry sleeps only, the task it sends is the one built from
\* its own request, a success returns the id and permalink of a task the
\* service stored for that invocation, and a step of one invocation (a 429
\* answered to it included) leaves the other's counter, position, trace and
\* outcome as they were.
C15_InvocationsIndependent ==
  /\ [](\A i \in Invs :
          LET r == inv[i]
          IN /\ r.retries = Cardinality({k \in 1..Len(r.log) : r.log[k].op = "sleep"})
             /\ (r.via = "execute" /\ Issued(r))
                  => /\ r.task.assignee
                          = resolvePersonByAlias(RegistryA, r.req.assignee).entry.email
                     /\ r.task.projects
                          = <<resolveProjectByAlias(RegistryA, r.req.project).entry.id>>
             /\ (r.pc = "done" /\ r.outcome = "returned" /\ r.result.success)
                  => /\ r.result.taskId \in TasksOf(i)
                     /\ r.result.permalink = r.result.taskId)
  /\ [][\A i \in Invs, j \in Invs :
          (i # j /\ inv'[i] # inv[i]) => inv'[j] = inv[j]]_vars

\* Both invocations started before any task existed, with different
\* requests; one was answered 429 and retried, the other was not, and both
\* succeeded with different tasks.
C15_Witness ==
  \E i \in Invs, j \in Invs :
    /\ i # j
    /\ inv[i].base = 0 /\ inv[j].base = 0
    /\ inv[i].req # inv[j].req
    /\ inv[i].pc = "done" /\ inv[i].result.success
    /\ inv[j].pc = "done" /\ inv[j].result.success
    /\ inv[i].log[1].res = "429" /\ inv[i].retries = 1
    /\ inv[j].retries = 0
    /\ inv[i].result.taskId # inv[j].result.taskId

\* C16: once a load has stored a document in registryCache, no later step -
\* no invocation with its resolver, permission and listing calls - changes
\* the cached document, and the registry an invocation's helpers worked on
\* is the cached one.
C16_CacheUnchanged ==
  /\ [][Truthy(registryCache) => registryCache' = registryCache]_vars
  /\ [](\A i \in Invs :
          (inv[i].via = "execute" /\ Truthy(registryCache))
            => inv[i].reg = registryCache)

\* A later invocation (a task exists from an earlier one) ran the resolvers,
\* the permission test and the allowed-assignee listing on the cached
\* document while the file holds another one.
C16_Witness ==
  \E i \in Invs :
    /\ registryCache = RegistryA
    /\ source = [kind |-> "json", value |-> RegistryB]
    /\ inv[i].via = "execute" /\ inv[i].pc = "done"
    /\ inv[i].base > 0
    /\ inv[i].reg = RegistryA
    /\ inv[i].result.error.kind = "not_allowed"
    /\ inv[i].result.error.allowed = Ops.allowed_assignees

\* s is a calendar date written YYYY-MM-DD.
IsCalendarDate(s) ==
  /\ Len(s) = 10
  /\ s[5] = "-" /\ s[8] = "-"
  /\ \A k \in {1, 2, 3, 4, 6, 7, 9, 10} : isDigit(s[k])
  /\ parseInt(SubSeq(s, 6, 7)) \in 1..12
  /\ parseInt(SubSeq(s, 9, 10))
       \in 1..DaysInMonth(parseInt(SubSeq(s, 1, 4)), parseInt(SubSeq(s, 6, 7)))

\* The day number of the calendar date s.
DayOf(s) ==
  MakeDay(parseInt(SubSeq(s, 1, 4)), parseInt(SubSeq(s, 6, 7)),
          parseInt(SubSeq(s, 9, 10)))

\* C12: whatever due_on is (absent, relative phrase, absolute date,
\* unparseable text) and whatever offsets the registry configures, the due
\* date execute sends is a calendar date written YYYY-MM-DD and is not
\* earlier than the (UTC) date of the invocation.
C12_DueDateValidNotPast ==
  lastCall.op = "formattedDueDate"
    => /\ IsCalendarDate(lastCall.out)
       /\ DayOf(lastCall.out) >= lastCall.today \div HoursPerDay

\* A long-past absolute date, on a host east of UTC.
C12_Witness ==
  /\ lastCall.op = "formattedDueDate"
  /\ lastCall.input = Due(<<"2", "0", "2", "4", "-", "0", "3", "-", "0", "5">>)
  /\ lastCall.today = Instant(2026, 11, 3, 23)
  /\ lastCall.tz = 9
  /\ lastCall.out = <<"2", "0", "2", "7", "-", "0", "3", "-", "0", "5">>

\* due is an absolute date (it holds no relative phrase and new Date reads
\* it) and that date lies before the time of invocation.
PastAbsolute(due, today) ==
  /\ due.present
  /\ newDate(due.text).valid
  /\ newDate(due.text).t < today

\* C20 as stated: a parsed date earlier than today is moved forward by
\* exactly one year - the same month and day, the year after the parsed
\* one - and the result is not in the past.
C20_ExactlyOneYear ==
  (lastCall.op = "formatDueDate" /\ PastAbsolute(lastCall.input, lastCall.today))
    => /\ lastCall.out.defined
       /\ lastCall.out.value
            = padStart(parseInt(SubSeq(lastCall.input.text, 1, 4)) + 1, 4)
                \o SubSeq(lastCall.input.text, 5, 10)
       /\ DayOf(lastCall.out.value) >= lastCall.today \div HoursPerDay

\* C20 amended: a parsed date earlier than the time of invocation is moved
\* forward by whole years to the first occurrence of its month and day that
\* is not earlier than the time of invocation - one year ahead or several,
\* as many as it takes - so the result is never in the past (stated for
\* month-day pairs that exist in every year).
C20_FirstOccurrenceNotPast ==
  (lastCall.op = "formatDueDate" /\ PastAbsolute(lastCall.input, lastCall.today)
     /\ SubSeq(lastCall.input.text, 5, 10) # <<"-", "0", "2", "-", "2", "9">>)
    => LET m == parseInt(SubSeq(lastCall.input.text, 6, 7))
           d == parseInt(SubSeq(lastCall.input.text, 9, 10))
           later == {y \in EpochYear..LastYear :
                       Instant(y, m, d, 0) >= lastCall.today}
           first == CHOOSE y \in later : \A z \in later : y <= z
       IN /\ lastCall.out.defined
          /\ lastCall.out.value
               = padStart(first, 4) \o SubSeq(lastCall.input.text, 5, 10)
          /\ DayOf(lastCall.out.value) >= lastCall.today \div HoursPerDay
          /\ first > parseInt(SubSeq(lastCall.input.text, 1, 4))

\* A date more than two years old is moved three years ahead.
C20_Witness ==
  /\ lastCall.op = "formatDueDate"
  /\ lastCall.input = Due(<<"2", "0", "2", "4", "-", "0", "3", "-", "0", "5">>)
  /\ lastCall.today = Instant(2026, 11, 3, 9)
  /\ lastCall.out = DateString(<<"2", "0", "2", "7", "-", "0", "3", "-", "0", "5">>)

\* The day number of the calendar date the invocation happens on, in the
\* zone the phrase is meant in (the host's own, tz hours east of UTC).
ReferenceDay == (lastCall.today + lastCall.tz) \div HoursPerDay

\* The calendar date with day number n, written YYYY-MM-DD.
DateOfDayNumber(n) == DateString(toISODate(n * HoursPerDay))

\* The "tomorrow" and "in N days" phrases exercised, with their offsets.
RelativePhrases ==
  {<<Due(<<"b", "y", " ", "t", "o", "m", "o", "r", "r", "o", "w", " ">>), 1>>,
   <<Due(<<"i", "n", " ", "0", " ", "d", "a", "y", "s">>), 0>>,
   <<Due(<<"i", "n", " ", "1", " ", "d", "a", "y">>), 1>>,
   <<Due(<<"i", "n", " ", "1", "0", " ", "d", "a", "y", "s">>), 10>>}

\* C21: at every date D and every time of day of the invocation,
\* formatDueDate of a "tomorrow" phrase is D+1 and of "in N days" is D+N,
\* written YYYY-MM-DD in the calendar D is a date of.
C21_TomorrowAndInDays ==
  lastCall.op = "formatDueDate"
    => \A ph \in RelativePhrases :
         lastCall.input = ph[1]
           => lastCall.out = DateOfDayNumber(ReferenceDay + ph[2])

\* The weekday phrases exercised, with the getDay number of their target.
WeekdayPhrases ==
  {<<Due(<<"n", "e", "x", "t", " ", "w", "e", "e", "k">>), 1>>,
   <<Due(<<"N", "e", "x", "t", " ", "M", "o", "n", "d", "a", "y">>), 1>>,
   <<Due(<<"n", "e", "x", "t", " ", "f", "r", "i", "d", "a", "y">>), 5>>}

\* C22: on every weekday of the invocation date, "next monday" and
\* "next week" give the first Monday strictly after today and "next friday"
\* the first Friday strictly after today: the result lies 1 to 7 days after
\* today, 7 when today is the target weekday, and falls on that weekday.
C22_NextWeekdayStrictlyAfter ==
  lastCall.op = "formatDueDate"
    => \A ph \in WeekdayPhrases :
         lastCall.input = ph[1]
           => /\ lastCall.out.defined
              /\ IsCalendarDate(lastCall.out.value)
              /\ WeekDay(DayOf(lastCall.out.value)) = ph[2]
              /\ DayOf(lastCall.out.value) - ReferenceDay \in 1..7
              /\ WeekDay(ReferenceDay) = ph[2]
                   => DayOf(lastCall.out.value) - ReferenceDay = 7

\* The request carries no usable due date: due_on is absent, empty or text
\* formatDueDate makes nothing of.
NoUsableDueDate(due) ==
  due \in {NoDue, Due(<< >>), Due(<<"s", "o", "o", "n">>)}

\* C23: without a usable due date the due date is today plus the first
\* defined offset among project SLA offset, project default offset,
\* registry default offset, 3 - for all non-negative offsets, 0 included: a
\* defined SLA offset is used whatever the others are, and the project
\* default is used whenever the SLA offset is absent.
C23_FirstDefinedOffset ==
  (lastCall.op = "formattedDueDate" /\ NoUsableDueDate(lastCall.input))
    => LET offset == IF lastCall.context.has_sla
                     THEN lastCall.context.sla.default_due_days_from_now
                     ELSE lastCall.projectDays
       IN lastCall.out
            = toISODate((lastCall.today \div HoursPerDay + offset) * HoursPerDay)

\* C29: an absolute date equal to or later than the calendar date of the
\* invocation is returned unchanged, at whatever time of day the invocation
\* happens; a date equal to today's yields today, not a later year.
C29_PresentOrFutureUnchanged ==
  (/\ lastCall.op = "formatDueDate"
   /\ lastCall.input.present
   /\ newDate(lastCall.input.text).valid
   /\ newDate(lastCall.input.text).t \div HoursPerDay >= ReferenceDay)
    => lastCall.out = DateString(lastCall.input.text)

\* C30: a failed load is not remembered as the registry.  When the load
\* before could not read or parse the file (and so returned the safe
\* default) and the file now holds a valid registry, this load reads it,
\* returns it and caches it; and a load that finds a successfully loaded
\* registry cached returns that registry without reading the file.
C30_FailedLoadNotRemembered ==
  lastCall.op = "load"
    => /\ (lastCall.after = "unreadable" /\ lastCall.src.kind = "json"
             /\ lastCall.src.value \in ValidDocs)
            => /\ lastCall.read
               /\ lastCall.ret = lastCall.src.value
               /\ registryCache = lastCall.src.value
       /\ lastCall.after \in {"unreadable"}
            => lastCall.read
       /\ (lastCall.after = "loaded" \/
             (lastCall.cached /\ lastCall.ret \in ValidDocs))
            => /\ ~lastCall.read
               /\ lastCall.ret \in ValidDocs
               /\ registryCache = lastCall.ret

\* The file was missing at one load and holds RegistryA at the next.
C30_Witness ==
  /\ lastCall.op = "load"
  /\ lastCall.after = "unreadable"
  /\ lastCall.src = [kind |-> "json", value |-> RegistryA]
  /\ lastCall.ret = RegistryA
  /\ registryCache = RegistryA

\* Number of trace entries of invocation record r made by operation op.
CountOf(r, op) == Cardinality({k \in 1..Len(r.log) : r.log[k].op = op})

\* The bounds of C28 on one invocation of createTaskWithRetry.
RetryBounds(r) ==
  r.maxRetries >= 1
    => /\ CountOf(r, "create") <= r.maxRetries
       /\ CountOf(r, "permalink") <= r.maxRetries
       /\ CountOf(r, "sleep") <= r.maxRetries - 1
       /\ \A k \in 1..Len(r.log) :
            r.log[k].op = "sleep"
              => /\ k > 1
                 /\ r.log[k - 1].op \in {"create", "permalink"}
                 /\ r.log[k - 1].err.status = Num(429)
       /\ r.via = "execute"
            => r.maxRetries = DefaultMaxRetries /\ CountOf(r, "sleep") <= 1

\* C28: for every maxRetries >= 1 and every sequence of answers of the
\* service, createTaskWithRetry makes at most maxRetries create calls, at
\* most maxRetries permalink calls and at most maxRetries - 1 sleeps, sleeps
\* only directly after an attempt that ended in a 429, and terminates; with
\* the default of 2 attempts it retries at most once.
C28_BoundedRetries ==
  /\ [](\A i \in Slots : RetryBounds(inv[i]))
  /\ \A i \in Slots :
       [](inv[i].pc \in {"create", "permalink", "sleep"} => <>(inv[i].pc = "done"))

\* A direct call with three attempts that used them all: three create
\* calls, two sleeps, each after a 429.
C28_Witness ==
  \E i \in Invs :
    /\ inv[i].pc = "done"
    /\ inv[i].maxRetries = 3
    /\ CountOf(inv[i], "create") = 3
    /\ CountOf(inv[i], "sleep") = 2
    /\ CountOf(inv[i], "permalink") >= 1

\* The first create call of invocation record r ended in a permanent fault:
\* the credential is missing, or the service answered with a non-2xx status
\* other than 429.
PermanentCreateFault(r) ==
  /\ r.log # << >>
  /\ r.log[1].op = "create"
  /\ r.log[1].res \in {"token", "error"}

\* C27: a permanent service fault is surfaced after a single create attempt
\* with the hint its kind calls for: authentication failed for status 401 or
\* 403, project not found for 404, not configured for a missing credential;
\* a fault with any other status gets neither the authentication nor the
\* not-found hint, whatever the response text holds.
C27_HintByFault ==
  \A i \in Invs :
    LET r == inv[i]
        e == r.log[1].err
    IN (r.via = "execute" /\ PermanentCreateFault(r))
         => /\ Len(r.log) = 1
            /\ r.pc = "done" /\ r.outcome = "returned"
            /\ ~r.result.success
            /\ r.result.error.kind = "create_failed"
            /\ r.result.error.cause = e
            /\ r.log[1].res = "token" => r.result.error.hint = "not_configured"
            /\ e.status \in {Num(401), Num(403)}
                 => r.result.error.hint = "auth_failed"
            /\ e.status = Num(404) => r.result.error.hint = "not_found"
            /\ e.status \in {Num(400), Num(500)}
                 => r.result.error.hint \notin {"auth_failed", "not_found"}

\* The verbs refineTitle can put in front of a title.
InferredVerbs == {<<"S", "e", "n", "d">>, <<"S", "c", "h", "e", "d", "u", "l", "e">>, <<"P", "r", "e", "p", "a", "r", "e">>, <<"C", "o", "m", "p", "l", "e", "t", "e">>}

\* The first word of title t is one of the fixed action verbs.
FirstWordIsVerb(t) ==
  \E k \in 1..Len(actionVerbs) :
    \/ toLowerCase(t) = actionVerbs[k]
    \/ /\ Len(t) > Len(actionVerbs[k])
       /\ toLowerCase(SubSeq(t, 1, Len(actionVerbs[k]) + 1))
            = actionVerbs[k] \o <<" ">>

\* Some title rule of project p mentions a verb.
MentionsVerb(p) ==
  \E k \in 1..Len(p.context.title_rules) :
    includes(toLowerCase(p.context.title_rules[k]), <<"v", "e", "r", "b">>)

\* s ends with t.
EndsWith(s, t) ==
  Len(s) >= Len(t) /\ SubSeq(s, Len(s) - Len(t) + 1, Len(s)) = t

\* C25: refineTitle puts at most one verb in front of the trimmed title,
\* however many title rules mention verbs; none when the first word already
\* is an action verb or no title rule mentions a verb; and the trimmed
\* original title is the end of the result.
C25_AtMostOneVerb ==
  lastCall.op = "refineTitle"
    => LET t == trim(lastCall.title)
       IN /\ \/ lastCall.out = t
             \/ \E v \in InferredVerbs : lastCall.out = v \o <<" ">> \o t
          /\ (FirstWordIsVerb(t) \/ ~MentionsVerb(lastCall.project))
               => lastCall.out = t
          /\ EndsWith(lastCall.out, t)

\* Two of the project's three title rules mention a verb; one verb is added.
C25_Witness ==
  /\ lastCall.op = "refineTitle"
  /\ Len(lastCall.project.context.title_rules) = 3
  /\ lastCall.title = <<" ", "p", "l", "a", "n", " ", "c", "a", "l", "l", " ">>
  /\ lastCall.out = <<"S", "c", "h", "e", "d", "u", "l", "e", " ", "p", "l", "a", "n", " ", "c", "a", "l", "l">>

\* The positions at which sub occurs in s.
Occurrences(s, sub) ==
  {k \in 1..(Len(s) - Len(sub) + 1) : SubSeq(s, k, k + Len(sub) - 1) = sub}

\* Some contains_any keyword of rule occurs in the lowercase concatenation
\* of title and notes.
RuleMatches(rule, title, notes) ==
  \E k \in 1..Len(rule.when.contains_any) :
    includes(toLowerCase(title \o <<" ">> \o orText(notes, << >>)),
             toLowerCase(rule.when.contains_any[k]))

\* The append_note texts of the matching rules among rules[k..], in
\* declared order, separated by blank lines.
RECURSIVE MatchingNotes(_, _, _, _)
MatchingNotes(rules, k, title, notes) ==
  IF k > Len(rules) THEN << >>
  ELSE LET rest == MatchingNotes(rules, k + 1, title, notes)
       IN IF ~RuleMatches(rules[k], title, notes) THEN rest
          ELSE IF rest = << >> THEN rules[k].then.append_note
          ELSE rules[k].then.append_note \o <<"\n", "\n">> \o rest

\* C24: synthesizeNotes appends the append_note text of every rule whose
\* keywords match the lowercase concatenation of title and raw notes, each
\* exactly once and in the declared rule order, and the text of no rule
\* that does not match.
C24_AllMatchingRulesAppend ==
  lastCall.op = "synthesizeNotes"
    => LET rules == lastCall.project.context.rules
           matches(j) == RuleMatches(rules[j], lastCall.title, lastCall.notes)
           at(j) == Occurrences(lastCall.out, rules[j].then.append_note)
       IN /\ \A j \in 1..Len(rules) :
               Cardinality(at(j)) = IF matches(j) THEN 1 ELSE 0
          /\ \A j, k \in 1..Len(rules) :
               (j < k /\ matches(j) /\ matches(k))
                 => \A a \in at(j), b \in at(k) : a < b
          /\ EndsWith(lastCall.out,
                      MatchingNotes(rules, 1, lastCall.title, lastCall.notes))

\* Three of the four rules match the title; their notes follow the
\* guidance in declared order.
C24_Witness ==
  /\ lastCall.op = "synthesizeNotes"
  /\ lastCall.project.context.rules = SampleRules
  /\ lastCall.title = <<"f", "i", "x", " ", "t", "h", "e", " ", "m", "e", "e", "t", "i", "n", "g", " ", "b", "u", "g", " ", "a", "s", "a", "p">>
  /\ lastCall.notes = NoNotes
  /\ lastCall.out = <<"G", "1">> \o <<"\n", "\n">> \o <<"#", "b">> \o <<"\n", "\n">>
                      \o <<"#", "a">> \o <<"\n", "\n">> \o <<"#", "m">>

\* C26: execute refines the title before it synthesizes the notes, and the
\* rules scan the refined title: for every task handed to the Task Client
\* the name is the refined title, and a rule's note is in the task's notes
\* exactly if one of its keywords occurs in that refined title or the raw
\* notes - so a rule whose keyword occurs only in the verb put in front
\* fires.
C26_RulesScanRefinedTitle ==
  \A i \in Invs :
    LET r == inv[i]
        project == r.project.entry
        rules == project.context.rules
    IN (r.via = "execute" /\ Issued(r))
         => /\ r.task.name = refineTitle(project, r.req.title)
            /\ \A k \in 1..Len(rules) :
                 RuleMatches(rules[k], r.task.name, r.req.notes)
                   <=> includes(r.task.notes, rules[k].then.append_note)

\* The title "x" became "Complete x", and the rule keyed on "complete",
\* which occurs in neither the raw title nor the raw notes, added its note.
C26_Witness ==
  \E i \in Invs :
    /\ inv[i].via = "execute" /\ Issued(inv[i])
    /\ inv[i].log # << >>
    /\ inv[i].req.title = <<"x">>
    /\ inv[i].req.notes = NoNotes
    /\ inv[i].project.entry = Ops
    /\ Ops.context.rules[1].when.contains_any
         = << <<"c", "o", "m", "p", "l", "e", "t", "e">> >>
    /\ inv[i].task.name = <<"C", "o", "m", "p", "l", "e", "t", "e", " ", "x">>
    /\ inv[i].task.notes = <<"G", "\n", "\n", "#", "c">>

====
